---- MODULE Spec2Model ----
(***************************************************************************)
(* Conversation-and-task state machine of the chat client (src/index.tsx). *)
(* Texts are sequences of one-character strings, so that trim, split,      *)
(* startsWith, replace and the sub-task pattern are computed on characters.*)
(* Conversation objects live in a heap: the two partitions of AppState map *)
(* an id to an object reference, and an asynchronous handler keeps the     *)
(* reference it captured before it was suspended.                          *)
(***************************************************************************)
EXTENDS Integers, Sequences, FiniteSets, TLC

\* ---------------------------------------------------------------- bounds
MaxClock == 3
MaxConvos == 2
MaxSends == 2
MaxTasks == 2
MaxLines == 2
MaxEnrich == 2
MaxExchanges == 3

\* ---------------------------------------------------------------- texts
NL == "\n"
\* a line terminator other than "\n" (U+2028, U+2029, "\r"): white space for
\* trim, not matched by "." in a pattern, not a separator for split('\n')
LS == "\r"
LineTerminators == {NL, LS}
Whitespace == {" ", NL, LS}

Hi == <<"h", "i">>
He == <<"H", "e">>
\* 'Sorry, I encountered an error. Please try again.'
SorryText ==
    << "S", "o", "r", "r", "y", ",", " ", "I", " ", "e", "n", "c", "o", "u", "n",
       "t", "e", "r", "e", "d", " ", "a", "n", " ", "e", "r", "r", "o", "r", ".",
       " ", "P", "l", "e", "a", "s", "e", " ", "t", "r", "y", " ", "a", "g", "a",
       "i", "n", "." >>
Llo == <<"l", "l", "o", "!">>
NewChatTitle == <<"N", "e", "w", " ", "C", "h", "a", "t">>

UserMessages == {Hi}

\* A stream is the sequence of chunks the backend will deliver; each chunk has
\* a text delta and, optionally, a groundingChunks array.
Chunk(t, has, g) == [text |-> t, hasGrounding |-> has, groundingChunks |-> g]
DeltaStreams ==
    { << Chunk(He, FALSE, <<>>), Chunk(Llo, FALSE, <<>>) >> }

\* Streams of a reply with web search: G1 and G2 are grounding chunk sets, and a
\* chunk carries such a set, an empty array, or no groundingChunks at all.
G1 == << "g1" >>
G2 == << "g2" >>
GroundingStreams ==
    { << Chunk(He, TRUE, G1), Chunk(Llo, TRUE, <<>>) >>,
      << Chunk(He, TRUE, G1), Chunk(Llo, FALSE, <<>>) >>,
      << Chunk(He, TRUE, G1), Chunk(Llo, TRUE, G2) >>,
      << Chunk(He, FALSE, <<>>), Chunk(Llo, TRUE, G2) >> }

\* Raw texts the model returns to the title prompt.
TitleResponses == { <<" ", "\"", "T", "\"", " ">> }

InstructionTexts == { <<>>, <<"c">> }

RECURSIVE TrimStart(_)
TrimStart(s) ==
    IF s # <<>> /\ Head(s) \in Whitespace THEN TrimStart(Tail(s)) ELSE s

RECURSIVE TrimEnd(_)
TrimEnd(s) ==
    IF s # <<>> /\ s[Len(s)] \in Whitespace
    THEN TrimEnd(SubSeq(s, 1, Len(s) - 1)) ELSE s

\* String.prototype.trim
Trim(s) == TrimEnd(TrimStart(s))

\* text.replace(/"/g, '')
RemoveQuotes(s) == SelectSeq(s, LAMBDA c : c # "\"")

\* s.startsWith(p)
StartsWith(s, p) == Len(s) >= Len(p) /\ SubSeq(s, 1, Len(p)) = p

\* s.indexOf(p) + 1, 0 when p does not occur
IndexOf(s, p) ==
    LET hits == { i \in 1..(Len(s) - Len(p) + 1) : SubSeq(s, i, i + Len(p) - 1) = p }
    IN IF hits = {} THEN 0 ELSE CHOOSE i \in hits : \A j \in hits : i <= j

\* s.replace(p, r) with a string pattern: the first occurrence only
ReplaceFirst(s, p, r) ==
    LET i == IndexOf(s, p) IN
    IF i = 0 THEN s
    ELSE SubSeq(s, 1, i - 1) \o r \o SubSeq(s, i + Len(p), Len(s))

\* s.split('\n')
RECURSIVE Split(_)
Split(s) ==
    LET i == IndexOf(s, <<NL>>) IN
    IF i = 0 THEN << s >>
    ELSE << SubSeq(s, 1, i - 1) >> \o Split(SubSeq(s, i + 1, Len(s)))

\* lines.join('\n')
RECURSIVE Join(_)
Join(lines) ==
    IF Len(lines) = 0 THEN <<>>
    ELSE IF Len(lines) = 1 THEN lines[1]
    ELSE lines[1] \o <<NL>> \o Join(Tail(lines))

Unchecked == <<"[", " ", "]">>
Checked == <<"[", "x", "]">>
DashBracket == <<"-", " ", "[">>

\* The lines notes are made of in the task specification: the two markers, free
\* text, an upper-case marker, an empty marker, an indented item, brackets
\* inside the text of an item.
Lines ==
    { <<"-", " ", "[", " ", "]", " ", "a">>,
      <<"-", " ", "[", "x", "]", " ", "b">>,
      <<"f", "r", "e", "e", " ", "t", "e", "x", "t">>,
      <<"-", " ", "[", "X", "]", " ", "d">>,
      <<"-", " ", "[", "]", " ", "[", " ", "]">>,
      <<" ", "-", " ", "[", "x", "]", " ", "[", " ", "]">> }

\* "- [ ] a\n- [x] b\nfree text\n- [ ] c"
ScenarioNotes ==
    Join(<< <<"-", " ", "[", " ", "]", " ", "a">>,
            <<"-", " ", "[", "x", "]", " ", "b">>,
            <<"f", "r", "e", "e", " ", "t", "e", "x", "t">>,
            <<"-", " ", "[", " ", "]", " ", "c">> >>)

Range(f) == { f[i] : i \in DOMAIN f }

SeqsUpTo(S, n) == UNION { [1..k -> S] : k \in 0..n }

NotesTexts == { Join(ls) : ls \in SeqsUpTo(Lines, MaxLines) } \cup { ScenarioNotes }

TitleTexts == { <<" ">>, <<"t">> }
FormNotes == { <<" ", "-", " ", "[", " ", "]", " ", "a", NL>> }

\* ---------------------------------------------------------------- state
VARIABLES
    now,                    \* Date.now()
    ai,                     \* TRUE when the GoogleGenAI client was constructed
    heap,                   \* conversation objects, by reference
    conversations,          \* state.conversations: references in key order
    archivedConversations,  \* state.archivedConversations: references in key order
    activeConversationId,   \* state.activeConversationId, 0 for null
    tasks,                  \* state.tasks
    settings,               \* state.settings
    persisted,              \* localStorage[STORAGE_KEY], parsed
    chat,                   \* the current model session
    sends,                  \* every handleFormSubmit call started so far
    inputDisabled,          \* chatInput.disabled and sendButton.disabled
    welcomeVisible,         \* the welcome screen with its sample prompts is shown
    form,                   \* the task form: editingTaskId, its inputs, its dataset
    enrich,                 \* the generateContent calls made for the task form, and
                            \* the disabled flags of the controls they lock
    activeTools             \* the Set of the ids of the enabled tools

vars == << now, ai, heap, conversations, archivedConversations,
           activeConversationId, tasks, settings, persisted, chat, sends,
           inputDisabled, welcomeVisible, form, enrich, activeTools >>

NoChat == [convo |-> 0, history |-> <<>>, systemInstruction |-> <<>>]

\* ------------------------------------------------ Record<string, Conversation>
Keys(h, c) == { h[c[i]].id : i \in 1..Len(c) }

\* collection[id], 0 for undefined
Lookup(h, c, id) ==
    IF \E i \in 1..Len(c) : h[c[i]].id = id
    THEN c[CHOOSE i \in 1..Len(c) : h[c[i]].id = id]
    ELSE 0

\* collection[id] = ref: an existing key keeps its place, a new key goes last
Put(h, c, id, ref) ==
    IF \E i \in 1..Len(c) : h[c[i]].id = id
    THEN [i \in 1..Len(c) |-> IF h[c[i]].id = id THEN ref ELSE c[i]]
    ELSE Append(c, ref)

\* delete collection[id]
Remove(h, c, id) == SelectSeq(c, LAMBDA r : h[r].id # id)

\* Object.keys(collection)[0] when there is one, else null
FirstKeyOrNull(h, c) == IF Len(c) > 0 THEN h[c[1]].id ELSE 0

\* ---------------------------------------------------------------- persistence
\* What JSON.stringify(state) writes: the objects the partitions reach, by value.
Snapshot(h, c, a, act, t, st) ==
    [ conversations         |-> [i \in 1..Len(c) |-> h[c[i]]],
      archivedConversations |-> [i \in 1..Len(a) |-> h[a[i]]],
      activeConversationId  |-> act,
      tasks                 |-> t,
      settings              |-> st ]

\* saveState() left out: the snapshot keeps its value
SaveStateSkipped(h, c, a, act, t, st) == persisted

\* saveState(): the new value of the persisted snapshot
SaveState(h, c, a, act, t, st) == Snapshot(h, c, a, act, t, st)

Saved ==
    persisted' = SaveState(heap', conversations', archivedConversations',
                           activeConversationId', tasks', settings')

getInitialState ==
    [ conversations         |-> <<>>,
      archivedConversations |-> <<>>,
      activeConversationId  |-> 0,
      tasks                 |-> <<>>,
      settings              |-> [ customInstructions |-> <<>>,
                                  isSidebarPinned    |-> FALSE ] ]

\* localStorage.getItem(STORAGE_KEY) giving null: no snapshot was ever written
NoSnapshot == [ nothing |-> TRUE ]

\* { ...a, ...b } for two objects given as functions of their field names
Spread(a, b) ==
    [ k \in DOMAIN a \cup DOMAIN b |-> IF k \in DOMAIN b THEN b[k] ELSE a[k] ]

\* an object without fields, which is also what spreading undefined adds
EmptyObject == [ k \in {} |-> 0 ]

\* loadState with the settings taken from the snapshot as they are
loadStateShallow(stored) ==
    IF stored = NoSnapshot THEN getInitialState
    ELSE [ Spread(getInitialState, stored) EXCEPT
             !["tasks"] = IF "tasks" \in DOMAIN stored THEN stored["tasks"] ELSE <<>> ]

\* loadState(): the AppState made of the stored snapshot, whose conversations
\* are objects by value
loadState(stored) ==
    IF stored = NoSnapshot THEN getInitialState
    ELSE [ Spread(getInitialState, stored) EXCEPT
             !["settings"] =
                 Spread(getInitialState["settings"],
                        IF "settings" \in DOMAIN stored
                        THEN stored["settings"] ELSE EmptyObject),
             !["tasks"] = IF "tasks" \in DOMAIN stored THEN stored["tasks"] ELSE <<>> ]

\* ---------------------------------------------------------------- sessions
\* setupConversation(): the new value of chat. ok is whether ai.chats.create
\* returns; when it throws, chat keeps its previous value.
setupConversation(h, c, act, ch, ok) ==
    LET r == Lookup(h, c, act) IN
    IF ~ai \/ r = 0 THEN NoChat
    ELSE IF ok
         THEN [convo |-> r, history |-> h[r].history,
               systemInstruction |-> h[r].customInstructions]
         ELSE ch

HasActive(h, c, act) == act # 0 /\ Lookup(h, c, act) # 0

\* chatHistoryElement.innerHTML = '': every message group made so far leaves
\* the document, with the suggestion bar it may carry
Detached(ss) == [s \in 1..Len(ss) |-> [ss[s] EXCEPT !.attached = FALSE]]

\* renderApp(): renderActiveConversation (which calls setupConversation) when the
\* active id names an active conversation, showWelcomeScreen otherwise, both
\* emptying chatHistoryElement; it ends in updateSidebarPinnedState, which saves.
renderApp(ok) ==
    /\ sends' = Detached(sends)
    /\ welcomeVisible' = ~HasActive(heap', conversations', activeConversationId')
    /\ chat' = IF HasActive(heap', conversations', activeConversationId')
               THEN setupConversation(heap', conversations',
                                      activeConversationId', chat, ok)
               ELSE chat
    /\ Saved

\* ---------------------------------------------------------------- conversations
NewConversation(id) ==
    [ id |-> id, title |-> NewChatTitle, history |-> <<>>,
      customInstructions |-> settings.customInstructions ]

\* the state change of startNewChat up to its saveState
CreateConversation ==
    /\ heap' = Append(heap, NewConversation(now))
    /\ conversations' = Put(heap', conversations, now, Len(heap) + 1)
    /\ activeConversationId' = now

startNewChat(ok) ==
    /\ Len(heap) < MaxConvos
    /\ CreateConversation
    /\ UNCHANGED << now, ai, archivedConversations, tasks, settings,
                    inputDisabled, form, enrich, activeTools >>
    /\ renderApp(ok)

selectConversation(id, ok) ==
    /\ activeConversationId # id
    /\ activeConversationId' = id
    /\ UNCHANGED << now, ai, heap, conversations, archivedConversations, tasks,
                    settings, inputDisabled, form, enrich, activeTools >>
    /\ renderApp(ok)

\* deleteConversation removing, with the conversation, the tasks created from it
deleteConversationCascade(id, isArchived, ok) ==
    /\ IF isArchived
       THEN /\ archivedConversations' = Remove(heap, archivedConversations, id)
            /\ UNCHANGED conversations
       ELSE /\ conversations' = Remove(heap, conversations, id)
            /\ UNCHANGED archivedConversations
    /\ activeConversationId' =
           IF activeConversationId = id
           THEN FirstKeyOrNull(heap, conversations')
           ELSE activeConversationId
    /\ tasks' = SelectSeq(tasks, LAMBDA t : t.sourceConversationId # id)
    /\ UNCHANGED << now, ai, heap, settings, inputDisabled, form, enrich, activeTools >>
    /\ renderApp(ok)

deleteConversation(id, isArchived, ok) ==
    /\ IF isArchived
       THEN /\ archivedConversations' = Remove(heap, archivedConversations, id)
            /\ UNCHANGED conversations
       ELSE /\ conversations' = Remove(heap, conversations, id)
            /\ UNCHANGED archivedConversations
    /\ activeConversationId' =
           IF activeConversationId = id
           THEN FirstKeyOrNull(heap, conversations')
           ELSE activeConversationId
    /\ UNCHANGED << now, ai, heap, tasks, settings, inputDisabled, form, enrich,
                    activeTools >>
    /\ renderApp(ok)

\* toggleArchiveConversation leaving activeConversationId as it is
toggleArchiveKeepsActive(id, ok) ==
    /\ IF Lookup(heap, archivedConversations, id) # 0
       THEN /\ archivedConversations' = Remove(heap, archivedConversations, id)
            /\ conversations' =
                   Put(heap, conversations, id,
                       Lookup(heap, archivedConversations, id))
       ELSE /\ conversations' = Remove(heap, conversations, id)
            /\ archivedConversations' =
                   Put(heap, archivedConversations, id,
                       Lookup(heap, conversations, id))
    /\ UNCHANGED << now, ai, heap, tasks, settings, inputDisabled, form, enrich,
                    activeTools, activeConversationId >>
    /\ renderApp(ok)

toggleArchiveConversation(id, ok) ==
    /\ IF Lookup(heap, archivedConversations, id) # 0
       THEN /\ archivedConversations' = Remove(heap, archivedConversations, id)
            /\ conversations' =
                   Put(heap, conversations, id,
                       Lookup(heap, archivedConversations, id))
            /\ activeConversationId' =
                   IF activeConversationId = 0 THEN id ELSE activeConversationId
       ELSE /\ conversations' = Remove(heap, conversations, id)
            /\ archivedConversations' =
                   Put(heap, archivedConversations, id,
                       Lookup(heap, conversations, id))
            /\ activeConversationId' =
                   IF activeConversationId = id
                   THEN FirstKeyOrNull(heap, conversations')
                   ELSE activeConversationId
    /\ UNCHANGED << now, ai, heap, tasks, settings, inputDisabled, form, enrich,
                    activeTools >>
    /\ renderApp(ok)


\* ---------------------------------------------------------------- sending
UserEntry(t) == [role |-> "user", text |-> t]
ModelEntry(t, g) == [role |-> "model", text |-> t, groundingChunks |-> g]

\* history.unshift(entry): the entry put first
PushEntryFirst(h, r, e) == [h EXCEPT ![r].history = << e >> \o @]

\* history.push(entry) on the conversation object r
PushEntry(h, r, e) == [h EXCEPT ![r].history = Append(@, e)]

\* availableTools, by id
AvailableTools == { "web-search" }

\* config.tools set whatever the tools enabled
RequestToolsAlways(tools) == << "googleSearch" >>

\* config.tools of the request handleFormSubmit builds, <<>> for a config
\* without tools
RequestTools(tools) ==
    IF "web-search" \in tools THEN << "googleSearch" >> ELSE <<>>

\* the two texts checkForTaskSuggestion puts in its prompt
NoPrompt == [user |-> <<>>, assistant |-> <<>>]

\* One call of handleFormSubmit: its position (pc), its locals (activeConvo as
\* ref, currentConvoId, isFirstMessage, userMessage, modelResponse,
\* groundingChunks), the session the request went to, what the backend still
\* has to deliver (stream) and has delivered (received, and receivedGrounding
\* for the groundingChunks property of each chunk), and the position of the
\* two enrichment calls it started: titlePc is "none" when
\* generateConversationTitle was not called, "returned" when it returned without
\* a request, then "pending", "done" or "failed". attached is TRUE while the
\* message group appendMessage('model', '') made for the reply is a child of
\* chatHistoryElement; the request returns, and the group is made, in the step
\* that delivers the first chunk. createAttempts counts the calls of
\* ai.chats.create the handler made, streamRequests its calls of
\* chat.sendMessageStream.
SendRecord(pc, r, id, first, msg, stream, session) ==
    [ pc |-> pc, ref |-> r, convoId |-> id, isFirstMessage |-> first,
      userMessage |-> msg, stream |-> stream, received |-> <<>>,
      receivedGrounding |-> <<>>,
      modelResponse |-> <<>>,
      groundingChunks |-> <<>>, session |-> session,
      titlePc |-> "none", titleRef |-> 0, suggestionPc |-> "none",
      suggestionPrompt |-> NoPrompt, attached |-> FALSE,
      requestTools |-> <<>>, createAttempts |-> 0, streamRequests |-> 0 ]

\* handleFormSubmit up to its first suspension. The message is typed into the
\* enabled input, or comes from a sample prompt of the welcome screen, whose
\* click dispatches the submit event whatever the state of the input.
\* ok1 and ok2 are the outcomes of the two possible ai.chats.create calls;
\* stream is what the backend will answer with.
handleFormSubmit(msg, stream, ok1, ok2) ==
    /\ ai
    /\ Trim(msg) # <<>>
    /\ ~inputDisabled \/ welcomeVisible
    /\ activeConversationId = 0 => Len(heap) < MaxConvos
    /\ LET create == activeConversationId = 0
           h1   == IF create THEN Append(heap, NewConversation(now)) ELSE heap
           c1   == IF create THEN Put(h1, conversations, now, Len(heap) + 1)
                   ELSE conversations
           cur  == IF create THEN now ELSE activeConversationId
           r    == Lookup(h1, c1, cur)
       IN
       IF r = 0
       THEN \* activeConvo is undefined: reading its history throws before the
            \* try block, nothing has been changed yet
            /\ sends' = Append(sends,
                   SendRecord("aborted", 0, cur, FALSE, Trim(msg), <<>>, NoChat))
            /\ UNCHANGED << now, ai, heap, conversations, archivedConversations,
                            activeConversationId, tasks, settings, persisted,
                            chat, inputDisabled, welcomeVisible, form, enrich,
                            activeTools >>
       ELSE
       LET first == h1[r].history = <<>>
           h2    == PushEntry(h1, r, UserEntry(Trim(msg)))
           chat1 == IF first THEN setupConversation(h2, c1, cur, chat, ok1)
                    ELSE chat
           chat2 == IF chat1 = NoChat
                    THEN setupConversation(h2, c1, cur, chat1, ok2) ELSE chat1
           attempts == (IF first THEN 1 ELSE 0) + (IF chat1 = NoChat THEN 1 ELSE 0)
       IN
       /\ heap' = h2
       /\ conversations' = c1
       /\ activeConversationId' = cur
       /\ welcomeVisible' = IF first THEN FALSE ELSE welcomeVisible
       /\ chat' = chat2
       /\ UNCHANGED << now, ai, archivedConversations, tasks, settings, form, enrich,
                    activeTools >>
       /\ Saved
       /\ IF chat2 = NoChat
          THEN \* "Chat session not available.": caught, the input is enabled
               /\ sends' = Append(sends,
                      [SendRecord("failed", r, cur, first, Trim(msg), <<>>, NoChat)
                           EXCEPT !.createAttempts = attempts])
               /\ inputDisabled' = FALSE
          ELSE /\ sends' = Append(sends,
                      [SendRecord("stream", r, cur, first, Trim(msg), stream, chat2)
                           EXCEPT !.requestTools = RequestTools(activeTools),
                                  !.createAttempts = attempts,
                                  !.streamRequests = 1])
               /\ inputDisabled' = TRUE

\* StreamDelta with "=" for "+=": the buffer holds the last delta only
StreamDeltaOverwrites(s) ==
    /\ sends[s].pc = "stream"
    /\ sends[s].stream # <<>>
    /\ LET chunk == Head(sends[s].stream) IN
       sends' = [sends EXCEPT
           ![s].stream = Tail(@),
           ![s].attached = IF sends[s].received = <<>> THEN TRUE ELSE @,
           ![s].received = Append(@, chunk.text),
           ![s].receivedGrounding =
               Append(@, [has |-> chunk.hasGrounding, set |-> chunk.groundingChunks]),
           ![s].modelResponse = chunk.text,
           ![s].groundingChunks =
               IF chunk.hasGrounding THEN chunk.groundingChunks ELSE @]
    /\ UNCHANGED << now, ai, heap, conversations, archivedConversations,
                    activeConversationId, tasks, settings, persisted, chat,
                    inputDisabled, welcomeVisible, form, enrich, activeTools >>

\* one iteration of the for-await loop
StreamDelta(s) ==
    /\ sends[s].pc = "stream"
    /\ sends[s].stream # <<>>
    /\ LET chunk == Head(sends[s].stream) IN
       sends' = [sends EXCEPT
           ![s].stream = Tail(@),
           ![s].attached = IF sends[s].received = <<>> THEN TRUE ELSE @,
           ![s].received = Append(@, chunk.text),
           ![s].receivedGrounding =
               Append(@, [has |-> chunk.hasGrounding, set |-> chunk.groundingChunks]),
           ![s].modelResponse = @ \o chunk.text,
           ![s].groundingChunks =
               IF chunk.hasGrounding THEN chunk.groundingChunks ELSE @]
    /\ UNCHANGED << now, ai, heap, conversations, archivedConversations,
                    activeConversationId, tasks, settings, persisted, chat,
                    inputDisabled, welcomeVisible, form, enrich, activeTools >>

\* generateConversationTitle(id) up to its await: the reference of the
\* conversation the title request is issued for, 0 when it returns without one
TitleTarget(h, c, id) ==
    LET r == Lookup(h, c, id) IN
    IF r = 0 \/ Len(h[r].history) < 2 THEN 0 ELSE r

\* checkForTaskSuggestion up to its await: TRUE when the request is issued
SuggestionRequested(h, r) == ai /\ Len(h[r].history) >= 2

\* lastUserEntry.text and lastModelEntry.text: the texts of the last two
\* entries of the history
SuggestionPrompt(h, r) ==
    LET hist == h[r].history IN
    [user |-> hist[Len(hist) - 1].text, assistant |-> hist[Len(hist)].text]

\* StreamEnd committing the reply to the conversation that is active when the
\* stream ends, looked up by state.activeConversationId, not to the captured one
StreamEndOnActive(s) ==
    /\ sends[s].pc = "stream"
    /\ sends[s].stream = <<>>
    /\ LET r == Lookup(heap, conversations, activeConversationId) IN
       heap' = IF r = 0 THEN heap
               ELSE PushEntry(heap, r,
                        ModelEntry(sends[s].modelResponse, sends[s].groundingChunks))
    /\ LET target == IF sends[s].isFirstMessage
                     THEN TitleTarget(heap', conversations, sends[s].convoId)
                     ELSE 0
       IN sends' = [sends EXCEPT
              ![s].pc = "done",
              ![s].titlePc = IF target # 0 THEN "pending"
                             ELSE IF sends[s].isFirstMessage THEN "returned"
                             ELSE "none",
              ![s].titleRef = target,
              ![s].suggestionPc =
                  IF SuggestionRequested(heap', sends[s].ref)
                  THEN "pending" ELSE "none",
              ![s].suggestionPrompt =
                  IF SuggestionRequested(heap', sends[s].ref)
                  THEN SuggestionPrompt(heap', sends[s].ref) ELSE NoPrompt]
    /\ inputDisabled' = FALSE
    /\ UNCHANGED << now, ai, conversations, archivedConversations,
                    activeConversationId, tasks, settings, chat, welcomeVisible, form, enrich,
                    activeTools >>
    /\ Saved

\* the stream is exhausted: commit, start the enrichment, enable the input
StreamEnd(s) ==
    /\ sends[s].pc = "stream"
    /\ sends[s].stream = <<>>
    /\ heap' = PushEntry(heap, sends[s].ref,
                   ModelEntry(sends[s].modelResponse, sends[s].groundingChunks))
    /\ LET target == IF sends[s].isFirstMessage
                     THEN TitleTarget(heap', conversations, sends[s].convoId)
                     ELSE 0
       IN sends' = [sends EXCEPT
              ![s].pc = "done",
              ![s].titlePc = IF target # 0 THEN "pending"
                             ELSE IF sends[s].isFirstMessage THEN "returned"
                             ELSE "none",
              ![s].titleRef = target,
              ![s].suggestionPc =
                  IF SuggestionRequested(heap', sends[s].ref)
                  THEN "pending" ELSE "none",
              ![s].suggestionPrompt =
                  IF SuggestionRequested(heap', sends[s].ref)
                  THEN SuggestionPrompt(heap', sends[s].ref) ELSE NoPrompt]
    /\ inputDisabled' = FALSE
    /\ UNCHANGED << now, ai, conversations, archivedConversations,
                    activeConversationId, tasks, settings, chat, welcomeVisible, form, enrich,
                    activeTools >>
    /\ Saved

\* the request or the stream throws: the catch block shows an error message in
\* the chat view, the finally block enables the input
StreamFail(s) ==
    /\ sends[s].pc = "stream"
    /\ sends' = [sends EXCEPT ![s].pc = "failed"]
    /\ inputDisabled' = FALSE
    /\ UNCHANGED << now, ai, heap, conversations, archivedConversations,
                    activeConversationId, tasks, settings, persisted, chat,
                    welcomeVisible, form, enrich, activeTools >>

\* TitleDone without its saveState
TitleDoneUnsaved(s, response) ==
    /\ sends[s].titlePc = "pending"
    /\ heap' = [heap EXCEPT ![sends[s].titleRef].title =
                                RemoveQuotes(Trim(response))]
    /\ sends' = [sends EXCEPT ![s].titlePc = "done"]
    /\ UNCHANGED << now, ai, conversations, archivedConversations,
                    activeConversationId, tasks, settings, chat, inputDisabled,
                    welcomeVisible, form, persisted, enrich, activeTools >>

\* generateConversationTitle after its await, the request having succeeded
TitleDone(s, response) ==
    /\ sends[s].titlePc = "pending"
    /\ heap' = [heap EXCEPT ![sends[s].titleRef].title =
                                RemoveQuotes(Trim(response))]
    /\ sends' = [sends EXCEPT ![s].titlePc = "done"]
    /\ UNCHANGED << now, ai, conversations, archivedConversations,
                    activeConversationId, tasks, settings, chat, inputDisabled,
                    welcomeVisible, form, enrich, activeTools >>
    /\ Saved

\* TitleFail with a catch block that reports the failure in the conversation
TitleFailAppendsError(s) ==
    /\ sends[s].titlePc = "pending"
    /\ sends' = [sends EXCEPT ![s].titlePc = "failed"]
    /\ heap' = PushEntry(heap, sends[s].titleRef, ModelEntry(SorryText, <<>>))
    /\ UNCHANGED << now, ai, conversations, archivedConversations,
                    activeConversationId, tasks, settings, chat, inputDisabled,
                    welcomeVisible, form, enrich, activeTools >>
    /\ Saved

\* generateConversationTitle after its await, the request having failed
TitleFail(s) ==
    /\ sends[s].titlePc = "pending"
    /\ sends' = [sends EXCEPT ![s].titlePc = "failed"]
    /\ UNCHANGED << now, ai, heap, conversations, archivedConversations,
                    activeConversationId, tasks, settings, persisted, chat,
                    inputDisabled, welcomeVisible, form, enrich, activeTools >>

\* checkForTaskSuggestion after its await: a suggestion bar is attached to the
\* reply when the answer parses and has taskSuggested, nothing happens otherwise
SuggestionDone(s, suggested) ==
    /\ sends[s].suggestionPc = "pending"
    /\ sends' = [sends EXCEPT
           ![s].suggestionPc = IF suggested THEN "shown" ELSE "dropped"]
    /\ UNCHANGED << now, ai, heap, conversations, archivedConversations,
                    activeConversationId, tasks, settings, persisted, chat,
                    inputDisabled, welcomeVisible, form, enrich, activeTools >>

\* SuggestionFail with a catch block that reports the failure in the conversation
SuggestionFailAppendsError(s) ==
    /\ sends[s].suggestionPc = "pending"
    /\ sends' = [sends EXCEPT ![s].suggestionPc = "failed"]
    /\ heap' = PushEntry(heap, sends[s].ref, ModelEntry(SorryText, <<>>))
    /\ UNCHANGED << now, ai, conversations, archivedConversations,
                    activeConversationId, tasks, settings, chat,
                    inputDisabled, welcomeVisible, form, enrich, activeTools >>
    /\ Saved

\* checkForTaskSuggestion after its await, the request or JSON.parse throwing:
\* the catch block logs the error
SuggestionFail(s) ==
    /\ sends[s].suggestionPc = "pending"
    /\ sends' = [sends EXCEPT ![s].suggestionPc = "failed"]
    /\ UNCHANGED << now, ai, heap, conversations, archivedConversations,
                    activeConversationId, tasks, settings, persisted, chat,
                    inputDisabled, welcomeVisible, form, enrich, activeTools >>

\* suggestion.taskTitle and suggestion.taskNotes of the answer
SuggestedTitle == << "d", "o" >>
SuggestedNotes == << "n" >>

\* the bar of send s can be clicked: it was rendered, on a message group that
\* is still in the document, and the task form does not cover the chat
BarVisible(s) ==
    sends[s].suggestionPc = "shown" /\ sends[s].attached /\ ~form.open

\* the "Create Task" button of the bar: openTaskForm(undefined, {...}) with the
\* id of the conversation the suggestion was made for, then bar.remove()
AcceptSuggestion(s) ==
    /\ BarVisible(s)
    /\ sends' = [sends EXCEPT ![s].suggestionPc = "accepted"]
    /\ form' = [ open |-> TRUE, editingTaskId |-> 0, title |-> SuggestedTitle,
                 notes |-> SuggestedNotes, status |-> "todo",
                 sourceConvoId |-> heap[sends[s].ref].id,
                 sourceMessage |-> SuggestedTitle, sourceLink |-> 0 ]
    /\ enrich' = [enrich EXCEPT !.generateSubtasksDisabled =
                      Trim(SuggestedTitle) = <<>> \/ enrich.titleInputDisabled]
    /\ UNCHANGED << now, ai, heap, conversations, archivedConversations,
                    activeConversationId, tasks, settings, persisted, chat,
                    inputDisabled, welcomeVisible, activeTools >>

\* the "Dismiss" button of the bar: bar.remove()
DismissSuggestion(s) ==
    /\ BarVisible(s)
    /\ sends' = [sends EXCEPT ![s].suggestionPc = "dismissed"]
    /\ UNCHANGED << now, ai, heap, conversations, archivedConversations,
                    activeConversationId, tasks, settings, persisted, chat,
                    inputDisabled, welcomeVisible, form, enrich, activeTools >>


\* ------------------------------------------------ localStorage.setItem throwing
\* saveState() has no try block: when setItem throws, the exception leaves the
\* handler at the call, with what the handler did before it done.

\* startNewChat() with its saveState throwing: renderApp is not reached
startNewChatWriteFails ==
    /\ Len(heap) < MaxConvos
    /\ CreateConversation
    /\ UNCHANGED << now, ai, archivedConversations, tasks, settings, sends,
                    inputDisabled, form, enrich, persisted, chat, welcomeVisible,
                    activeTools >>

\* handleFormSubmit with the first saveState it reaches throwing: the one of
\* startNewChat(false) when there is no active conversation, else the one that
\* follows the push of the user's entry. The exception is raised before the try
\* block: the handler ends there, as a send at "threw".
handleFormSubmitWriteFails(msg, ok1) ==
    /\ ai
    /\ Trim(msg) # <<>>
    /\ ~inputDisabled \/ welcomeVisible
    /\ Len(sends) < MaxSends
    /\ IF activeConversationId = 0
       THEN /\ Len(heap) < MaxConvos
            /\ CreateConversation
            /\ sends' = Append(sends,
                   SendRecord("threw", Len(heap) + 1, now, FALSE, Trim(msg),
                              <<>>, NoChat))
            /\ UNCHANGED << chat, inputDisabled, welcomeVisible >>
       ELSE LET r == Lookup(heap, conversations, activeConversationId)
                first == heap[r].history = <<>>
            IN /\ r # 0
               /\ heap' = PushEntry(heap, r, UserEntry(Trim(msg)))
               /\ inputDisabled' = TRUE
               /\ welcomeVisible' = IF first THEN FALSE ELSE welcomeVisible
               /\ chat' = IF first
                          THEN setupConversation(heap', conversations,
                                                 activeConversationId, chat, ok1)
                          ELSE chat
               /\ sends' = Append(sends,
                      [SendRecord("threw", r, activeConversationId, first,
                                  Trim(msg), <<>>, NoChat)
                           EXCEPT !.createAttempts = IF first THEN 1 ELSE 0])
               /\ UNCHANGED << conversations, activeConversationId >>
    /\ UNCHANGED << now, ai, archivedConversations, tasks, settings, form,
                    enrich, persisted, activeTools >>

\* the stream is exhausted and the saveState after the commit throws, inside
\* the try block: the title call has been made, the catch block shows the error
\* message, checkForTaskSuggestion is skipped, the finally block enables the input
StreamEndWriteFails(s) ==
    /\ sends[s].pc = "stream"
    /\ sends[s].stream = <<>>
    /\ heap' = PushEntry(heap, sends[s].ref,
                   ModelEntry(sends[s].modelResponse, sends[s].groundingChunks))
    /\ LET target == IF sends[s].isFirstMessage
                     THEN TitleTarget(heap', conversations, sends[s].convoId)
                     ELSE 0
       IN sends' = [sends EXCEPT
              ![s].pc = "unsaved",
              ![s].titlePc = IF target # 0 THEN "pending"
                             ELSE IF sends[s].isFirstMessage THEN "returned"
                             ELSE "none",
              ![s].titleRef = target]
    /\ inputDisabled' = FALSE
    /\ UNCHANGED << now, ai, conversations, archivedConversations,
                    activeConversationId, tasks, settings, chat, welcomeVisible,
                    form, enrich, persisted, activeTools >>

\* ---------------------------------------------------------------- tasks
\* No generateContent call made for the task form yet, its controls enabled.
NoEnrichment ==
    [calls |-> <<>>, titleInputDisabled |-> FALSE, generateSubtasksDisabled |-> FALSE]

ClosedForm ==
    [ open |-> FALSE, editingTaskId |-> 0, title |-> <<>>, notes |-> <<>>,
      status |-> "todo", sourceConvoId |-> 0, sourceMessage |-> <<>>,
      sourceLink |-> 0 ]

\* the match of /^- \[( |x)\] (.*)/ on the trimmed line
IsSubtaskLine(line) ==
    LET t == Trim(line) IN
    /\ Len(t) >= 6
    /\ SubSeq(t, 1, 3) = DashBracket
    /\ t[4] \in {" ", "x"}
    /\ t[5] = "]"
    /\ t[6] = " "

\* what (.*) matches: the characters up to the first line terminator
RECURSIVE UpToLineTerminator(_)
UpToLineTerminator(s) ==
    IF s = <<>> \/ Head(s) \in LineTerminators THEN <<>>
    ELSE << Head(s) >> \o UpToLineTerminator(Tail(s))

SubtaskOf(line) ==
    LET t == Trim(line) IN
    [checked |-> t[4] = "x", text |-> UpToLineTerminator(SubSeq(t, 7, Len(t)))]

\* parseAndRenderSubtasks: the items in document order, and the two counts
RECURSIVE SubtaskItems(_)
SubtaskItems(lines) ==
    IF lines = <<>> THEN <<>>
    ELSE (IF IsSubtaskLine(Head(lines)) THEN << SubtaskOf(Head(lines)) >> ELSE <<>>)
         \o SubtaskItems(Tail(lines))

parseAndRenderSubtasks(notes) ==
    LET items == SubtaskItems(Split(notes)) IN
    [ items     |-> items,
      completed |-> Cardinality({ i \in 1..Len(items) : items[i].checked }),
      total     |-> Len(items) ]

\* The checklist text of a sequence of items: `- [ ] ${task}` for an item that
\* is not checked, as handleGenerateSubtasks writes it, "- [x] " for a checked
\* one, the lines joined by "\n".
EncodeItem(item) ==
    DashBracket \o << IF item.checked THEN "x" ELSE " ", "]", " " >> \o item.text

Encode(items) == Join([i \in 1..Len(items) |-> EncodeItem(items[i])])

\* the test the change listener counts lines with
CountedByToggle(line) == StartsWith(Trim(line), DashBracket)

\* the loop of the change listener: i is the line reached, currentSubtask the
\* counter before it
RECURSIVE ToggleLoop(_, _, _, _, _)
ToggleLoop(lines, i, currentSubtask, subtaskIndex, checked) ==
    IF i > Len(lines) THEN lines
    ELSE IF CountedByToggle(lines[i])
         THEN IF currentSubtask + 1 = subtaskIndex
              THEN [lines EXCEPT ![i] =
                       IF checked THEN ReplaceFirst(@, Unchecked, Checked)
                       ELSE ReplaceFirst(@, Checked, Unchecked)]
              ELSE ToggleLoop(lines, i + 1, currentSubtask + 1, subtaskIndex, checked)
         ELSE ToggleLoop(lines, i + 1, currentSubtask, subtaskIndex, checked)

\* ToggledNotes writing the trimmed lines back
ToggledNotesTrimmed(notes, subtaskIndex, checked) ==
    LET lines == ToggleLoop(Split(notes), 1, -1, subtaskIndex, checked)
    IN Join([l \in 1..Len(lines) |-> Trim(lines[l])])

\* the notes the change listener writes back
ToggledNotes(notes, subtaskIndex, checked) ==
    Join(ToggleLoop(Split(notes), 1, -1, subtaskIndex, checked))

\* state.tasks.findIndex(t => t.id === id) + 1
FindTask(t, id) ==
    IF \E k \in 1..Len(t) : t[k].id = id
    THEN CHOOSE k \in 1..Len(t) : t[k].id = id /\ \A j \in 1..(k - 1) : t[j].id # id
    ELSE 0

\* The change listener of the task list. The check box clicked was rendered
\* from task j: it carries that task's id, the ordinal the parser gave the item
\* and, once clicked, the opposite of the state the parser read.
ToggleSubtask(j, subtaskIndex) ==
    /\ j \in 1..Len(tasks)
    /\ subtaskIndex \in 0..(parseAndRenderSubtasks(tasks[j].notes).total - 1)
    /\ LET checked ==
               ~parseAndRenderSubtasks(tasks[j].notes).items[subtaskIndex + 1].checked
           k == FindTask(tasks, tasks[j].id)
       IN tasks' = [tasks EXCEPT ![k].notes =
                        ToggledNotes(@, subtaskIndex, checked)]
    /\ UNCHANGED << now, ai, heap, conversations, archivedConversations,
                    activeConversationId, settings, chat, sends, inputDisabled,
                    welcomeVisible, form, enrich, activeTools >>
    /\ Saved

\* openTaskForm(task): a click on item k of the task list
openTaskFormEdit(k) ==
    /\ k \in 1..Len(tasks)
    /\ form' = [ open |-> TRUE, editingTaskId |-> tasks[k].id,
                 title |-> tasks[k].title, notes |-> tasks[k].notes,
                 status |-> tasks[k].status,
                 sourceConvoId |-> tasks[k].sourceConversationId,
                 sourceMessage |-> tasks[k].sourceMessageText,
                 sourceLink |-> tasks[k].sourceConversationId ]
    /\ enrich' = [enrich EXCEPT !.generateSubtasksDisabled =
                      Trim(tasks[k].title) = <<>> \/ enrich.titleInputDisabled]
    /\ UNCHANGED << now, ai, heap, conversations, archivedConversations,
                    activeConversationId, tasks, settings, persisted, chat,
                    sends, inputDisabled, welcomeVisible, activeTools >>

\* openTaskForm(): the "create new task" button
openTaskFormNew ==
    /\ form' = [ClosedForm EXCEPT !.open = TRUE]
    /\ enrich' = [enrich EXCEPT !.generateSubtasksDisabled = TRUE]
    /\ UNCHANGED << now, ai, heap, conversations, archivedConversations,
                    activeConversationId, tasks, settings, persisted, chat,
                    sends, inputDisabled, welcomeVisible, activeTools >>

\* closeTaskForm()
closeTaskForm ==
    /\ form.open
    /\ form' = ClosedForm
    /\ UNCHANGED << now, ai, heap, conversations, archivedConversations,
                    activeConversationId, tasks, settings, persisted, chat,
                    sends, inputDisabled, welcomeVisible, enrich, activeTools >>

\* the user edits the inputs of the open form; the title input may be disabled,
\* and its keyup listener sets the state of the "generate sub-tasks" button
EditForm(title, notes, status) ==
    /\ form.open
    /\ title # form.title => ~enrich.titleInputDisabled
    /\ form' = [form EXCEPT !.title = title, !.notes = notes, !.status = status]
    /\ enrich' = IF title # form.title
                 THEN [enrich EXCEPT !.generateSubtasksDisabled = Trim(title) = <<>>]
                 ELSE enrich
    /\ UNCHANGED << now, ai, heap, conversations, archivedConversations,
                    activeConversationId, tasks, settings, persisted, chat,
                    sends, inputDisabled, welcomeVisible, activeTools >>

\* One generateContent call made for the task form: kind is "subtasks" or
\* "title", pc is "pending", "done" or "failed", fullText is the argument of
\* generateTitleForTask; forTask is the editingTaskId of the form the call was
\* made from (0 for a form of a new task), which the code does not keep.
EnrichCall(kind, forTask, fullText) ==
    [kind |-> kind, pc |-> "pending", forTask |-> forTask, fullText |-> fullText]

\* s.substring(0, n)
Substring(s, n) == SubSeq(s, 1, IF Len(s) < n THEN Len(s) ELSE n)

\* 'Generating title...'
GeneratingTitle ==
    << "G", "e", "n", "e", "r", "a", "t", "i", "n", "g", " ", "t", "i", "t", "l",
       "e", ".", ".", "." >>

\* openTaskForm(undefined, {..., autoGenerateTitle: true}): the "Create Task"
\* button of the model message rendered from entry i of the active
\* conversation. generateTitleForTask runs up to its await inside it.
openTaskFormFromMessage(i) ==
    /\ HasActive(heap, conversations, activeConversationId)
    /\ ~welcomeVisible
    /\ Len(enrich.calls) < MaxEnrich
    /\ LET r == Lookup(heap, conversations, activeConversationId) IN
       /\ i \in 1..Len(heap[r].history)
       /\ heap[r].history[i].role = "model"
       /\ LET text  == heap[r].history[i].text
              title == IF ai THEN GeneratingTitle
                       ELSE Substring(text, 50)
                                \o (IF Len(text) > 50 THEN <<".", ".", ".">> ELSE <<>>)
          IN /\ form' = [ open |-> TRUE, editingTaskId |-> 0, title |-> title,
                          notes |-> text, status |-> "todo",
                          sourceConvoId |-> activeConversationId,
                          sourceMessage |-> text, sourceLink |-> 0 ]
             /\ enrich' =
                    IF ai
                    THEN [ calls |-> Append(enrich.calls, EnrichCall("title", 0, text)),
                           titleInputDisabled |-> TRUE,
                           generateSubtasksDisabled |-> TRUE ]
                    ELSE [ enrich EXCEPT
                             !.titleInputDisabled = FALSE,
                             !.generateSubtasksDisabled = Trim(title) = <<>> ]
    /\ UNCHANGED << now, ai, heap, conversations, archivedConversations,
                    activeConversationId, tasks, settings, persisted, chat,
                    sends, inputDisabled, welcomeVisible, activeTools >>

\* generateTitleForTask after its await, the request having succeeded
GenerateTitleDone(e, response) ==
    /\ e \in 1..Len(enrich.calls)
    /\ enrich.calls[e].kind = "title" /\ enrich.calls[e].pc = "pending"
    /\ form' = [form EXCEPT !.title = RemoveQuotes(Trim(response))]
    /\ enrich' = [enrich EXCEPT
           !.calls[e].pc = "done",
           !.titleInputDisabled = FALSE,
           !.generateSubtasksDisabled = Trim(form'.title) = <<>>]
    /\ UNCHANGED << now, ai, heap, conversations, archivedConversations,
                    activeConversationId, tasks, settings, persisted, chat,
                    sends, inputDisabled, welcomeVisible, activeTools >>

\* generateTitleForTask after its await, the request having failed: the title
\* falls back to the first line of the text
GenerateTitleFail(e) ==
    /\ e \in 1..Len(enrich.calls)
    /\ enrich.calls[e].kind = "title" /\ enrich.calls[e].pc = "pending"
    /\ form' = [form EXCEPT
           !.title = Substring(Split(enrich.calls[e].fullText)[1], 70)]
    /\ enrich' = [enrich EXCEPT
           !.calls[e].pc = "failed",
           !.titleInputDisabled = FALSE,
           !.generateSubtasksDisabled = Trim(form'.title) = <<>>]
    /\ UNCHANGED << now, ai, heap, conversations, archivedConversations,
                    activeConversationId, tasks, settings, persisted, chat,
                    sends, inputDisabled, welcomeVisible, activeTools >>

\* handleGenerateSubtasks up to its await: a click on the enabled button of the
\* open form, with a title and a client
handleGenerateSubtasks ==
    /\ form.open
    /\ ~enrich.generateSubtasksDisabled
    /\ Trim(form.title) # <<>> /\ ai
    /\ Len(enrich.calls) < MaxEnrich
    /\ enrich' = [enrich EXCEPT
           !.calls = Append(@, EnrichCall("subtasks", form.editingTaskId, <<>>)),
           !.generateSubtasksDisabled = TRUE]
    /\ UNCHANGED << now, ai, heap, conversations, archivedConversations,
                    activeConversationId, tasks, settings, persisted, chat,
                    sends, inputDisabled, welcomeVisible, form, activeTools >>

\* handleGenerateSubtasks after its await, the answer parsed into subtasks
GenerateSubtasksDone(e, subtasks) ==
    /\ e \in 1..Len(enrich.calls)
    /\ enrich.calls[e].kind = "subtasks" /\ enrich.calls[e].pc = "pending"
    /\ form' =
           IF subtasks # <<>>
           THEN LET checklist ==
                        Encode([i \in 1..Len(subtasks) |->
                                   [checked |-> FALSE, text |-> subtasks[i]]])
                    separator == IF Trim(form.notes) # <<>> THEN <<NL, NL>> ELSE <<>>
                IN [form EXCEPT !.notes = @ \o separator \o checklist]
           ELSE form
    /\ enrich' = [enrich EXCEPT !.calls[e].pc = "done",
                                !.generateSubtasksDisabled = FALSE]
    /\ UNCHANGED << now, ai, heap, conversations, archivedConversations,
                    activeConversationId, tasks, settings, persisted, chat,
                    sends, inputDisabled, welcomeVisible, activeTools >>

\* handleGenerateSubtasks after its await, the request or JSON.parse throwing
GenerateSubtasksFail(e) ==
    /\ e \in 1..Len(enrich.calls)
    /\ enrich.calls[e].kind = "subtasks" /\ enrich.calls[e].pc = "pending"
    /\ enrich' = [enrich EXCEPT !.calls[e].pc = "failed",
                                !.generateSubtasksDisabled = FALSE]
    /\ UNCHANGED << now, ai, heap, conversations, archivedConversations,
                    activeConversationId, tasks, settings, persisted, chat,
                    sends, inputDisabled, welcomeVisible, form, activeTools >>

\* { ...existingTask, ...formData }
MergedTask(existing) ==
    [existing EXCEPT !.title = Trim(form.title), !.notes = Trim(form.notes),
                     !.status = form.status]

NewTask ==
    [ id |-> now, title |-> Trim(form.title), notes |-> Trim(form.notes),
      status |-> form.status, sourceConversationId |-> form.sourceConvoId,
      sourceMessageText |-> form.sourceMessage ]

\* handleTaskFormSubmit without the test of the title
handleTaskFormSubmitUnchecked ==
    /\ form.open
    /\ form.editingTaskId = 0 => Len(tasks) < MaxTasks
    /\ tasks' =
           IF form.editingTaskId # 0
           THEN LET k == FindTask(tasks, form.editingTaskId) IN
                IF k > 0 THEN [tasks EXCEPT ![k] = MergedTask(@)]
                ELSE tasks
           ELSE Append(tasks, NewTask)
    /\ form' = ClosedForm
    /\ persisted' = SaveState(heap, conversations, archivedConversations,
                              activeConversationId, tasks', settings)
    /\ UNCHANGED << now, ai, heap, conversations, archivedConversations,
                    activeConversationId, settings, chat, sends, inputDisabled,
                    welcomeVisible, enrich, activeTools >>

handleTaskFormSubmit ==
    /\ form.open
    /\ form.editingTaskId = 0 /\ Trim(form.title) # <<>> => Len(tasks) < MaxTasks
    /\ IF Trim(form.title) = <<>>
       THEN \* "Task title cannot be empty": nothing is changed, the form stays
            UNCHANGED << tasks, persisted, form >>
       ELSE /\ tasks' =
                  IF form.editingTaskId # 0
                  THEN LET k == FindTask(tasks, form.editingTaskId) IN
                       IF k > 0 THEN [tasks EXCEPT ![k] = MergedTask(@)]
                       ELSE tasks
                  ELSE Append(tasks, NewTask)
            /\ form' = ClosedForm
            /\ persisted' = SaveState(heap, conversations, archivedConversations,
                                      activeConversationId, tasks', settings)
    /\ UNCHANGED << now, ai, heap, conversations, archivedConversations,
                    activeConversationId, settings, chat, sends, inputDisabled,
                    welcomeVisible, enrich, activeTools >>

\* handleDeleteTask(), the deletion confirmed
handleDeleteTask ==
    /\ form.open
    /\ form.editingTaskId # 0
    /\ tasks' = SelectSeq(tasks, LAMBDA t : t.id # form.editingTaskId)
    /\ form' = ClosedForm
    /\ UNCHANGED << now, ai, heap, conversations, archivedConversations,
                    activeConversationId, settings, chat, sends, inputDisabled,
                    welcomeVisible, enrich, activeTools >>
    /\ Saved

\* the source link of the task form: selectConversation(task.sourceConversationId),
\* which returns at once when that id is the active one, then closeTasksOverlay()
SourceLinkClick(ok) ==
    /\ form.open
    /\ form.sourceLink # 0
    /\ form' = ClosedForm
    /\ activeConversationId' = form.sourceLink
    /\ UNCHANGED << now, ai, heap, conversations, archivedConversations, tasks,
                    settings, inputDisabled, enrich, activeTools >>
    /\ IF activeConversationId = form.sourceLink
       THEN UNCHANGED << persisted, chat, welcomeVisible, sends >>
       ELSE renderApp(ok)

\* saveSettings(); it ends in renderApp
saveSettings(instructions, ok) ==
    /\ settings' = [settings EXCEPT !.customInstructions = instructions]
    /\ UNCHANGED << now, ai, heap, conversations, archivedConversations,
                    activeConversationId, tasks, inputDisabled, form, enrich,
                    activeTools >>
    /\ renderApp(ok)

\* main(): the page is loaded, or loaded again. loadState reads the snapshot,
\* initializeChat constructs the client (okAi is whether the constructor
\* returns), renderApp shows the active conversation and saves; the handlers
\* and the form of the page before are gone.
main(okAi) ==
    LET loaded == loadState(persisted)
        n      == Len(loaded.conversations)
        m      == Len(loaded.archivedConversations)
    IN
    /\ heap' = loaded.conversations \o loaded.archivedConversations
    /\ conversations' = [i \in 1..n |-> i]
    /\ archivedConversations' = [i \in 1..m |-> n + i]
    /\ activeConversationId' = loaded.activeConversationId
    /\ tasks' = loaded.tasks
    /\ settings' = loaded.settings
    /\ ai' = okAi
    /\ sends' = <<>>
    /\ inputDisabled' = FALSE
    /\ form' = ClosedForm
    /\ enrich' = NoEnrichment
    /\ activeTools' = {}
    /\ welcomeVisible' = ~HasActive(heap', conversations', activeConversationId')
    /\ chat' = IF okAi /\ HasActive(heap', conversations', activeConversationId')
               THEN LET r == Lookup(heap', conversations', activeConversationId')
                    IN [convo |-> r, history |-> heap'[r].history,
                        systemInstruction |-> heap'[r].customInstructions]
               ELSE NoChat
    /\ UNCHANGED now
    /\ Saved

\* activeTools after toggleTool(toolId)
ToggledTools(tools, toolId) ==
    IF toolId \in tools THEN tools \ {toolId} ELSE tools \cup {toolId}

\* toggleTool(toolId): a click on the button of the tool, or on its chip
toggleTool(toolId) ==
    /\ activeTools' = ToggledTools(activeTools, toolId)
    /\ UNCHANGED << now, ai, heap, conversations, archivedConversations,
                    activeConversationId, tasks, settings, persisted, chat,
                    sends, inputDisabled, welcomeVisible, form, enrich >>

\* ---------------------------------------------------------------- Init
Init ==
    /\ now = 2
    /\ ai \in BOOLEAN
    /\ heap = <<>>
    /\ conversations = getInitialState.conversations
    /\ archivedConversations = getInitialState.archivedConversations
    /\ activeConversationId = getInitialState.activeConversationId
    /\ tasks = getInitialState.tasks
    /\ settings = getInitialState.settings
    /\ persisted = Snapshot(heap, conversations, archivedConversations,
                            activeConversationId, tasks, settings)
    /\ chat = NoChat
    /\ sends = <<>>
    /\ inputDisabled = FALSE
    /\ welcomeVisible = TRUE
    /\ form = ClosedForm
    /\ enrich = NoEnrichment
    /\ activeTools = {}

Tick ==
    /\ now < MaxClock
    /\ now' = now + 1
    /\ UNCHANGED << form, ai, heap, conversations, archivedConversations,
                    activeConversationId, tasks, settings, persisted, chat,
                    sends, inputDisabled, welcomeVisible, enrich, activeTools >>

ListedIds == Keys(heap, conversations) \cup Keys(heap, archivedConversations)

\* The chat specification: the conversation operations, the sends and their
\* enrichment, every ai.chats.create call succeeding.
Next ==
    \/ Tick
    \/ startNewChat(TRUE)
    \/ \E id \in ListedIds : selectConversation(id, TRUE)
    \/ \E id \in Keys(heap, conversations) : deleteConversation(id, FALSE, TRUE)
    \/ \E id \in Keys(heap, archivedConversations) :
           deleteConversation(id, TRUE, TRUE)
    \/ \E id \in ListedIds : toggleArchiveConversation(id, TRUE)
    \/ \E msg \in UserMessages, stream \in DeltaStreams :
           Len(sends) < MaxSends /\ handleFormSubmit(msg, stream, TRUE, TRUE)
    \/ \E s \in 1..Len(sends) : StreamDelta(s)
    \/ \E s \in 1..Len(sends) : StreamEnd(s)
    \/ \E s \in 1..Len(sends) : StreamFail(s)
    \/ \E s \in 1..Len(sends), response \in TitleResponses : TitleDone(s, response)
    \/ \E s \in 1..Len(sends) : TitleFail(s)
    \/ \E s \in 1..Len(sends), suggested \in BOOLEAN : SuggestionDone(s, suggested)

Spec == Init /\ [][Next]_vars

\* The session specification: the same operations with ai.chats.create free to
\* throw, the enrichment requests left outstanding.
SessionNext ==
    \/ Tick
    \/ \E ok \in BOOLEAN : startNewChat(ok)
    \/ \E id \in ListedIds, ok \in BOOLEAN : selectConversation(id, ok)
    \/ \E id \in Keys(heap, conversations), ok \in BOOLEAN :
           deleteConversation(id, FALSE, ok)
    \/ \E id \in Keys(heap, archivedConversations), ok \in BOOLEAN :
           deleteConversation(id, TRUE, ok)
    \/ \E id \in ListedIds, ok \in BOOLEAN : toggleArchiveConversation(id, ok)
    \/ \E msg \in UserMessages, stream \in DeltaStreams, ok1, ok2 \in BOOLEAN :
           Len(sends) < MaxSends /\ handleFormSubmit(msg, stream, ok1, ok2)
    \/ \E s \in 1..Len(sends) : StreamDelta(s)
    \/ \E s \in 1..Len(sends) : StreamEnd(s)
    \/ \E s \in 1..Len(sends) : StreamFail(s)

SessionSpec == Init /\ [][SessionNext]_vars

\* The task specification starts from a snapshot loaded at start-up: one
\* conversation with a completed exchange, and at most one task, whose notes
\* are any text of NotesTexts.
LoadedConversation ==
    [ id |-> 1, title |-> NewChatTitle,
      history |-> << UserEntry(Hi), ModelEntry(He \o Llo, <<>>) >>,
      customInstructions |-> <<>> ]

LoadedTask(notes, source) ==
    [ id |-> 1, title |-> <<"t">>, notes |-> notes, status |-> "todo",
      sourceConversationId |-> source, sourceMessageText |-> <<>> ]

TaskInit ==
    /\ now = 2
    /\ ai = TRUE
    /\ heap = << LoadedConversation >>
    /\ conversations = << 1 >>
    /\ archivedConversations = <<>>
    /\ activeConversationId = 1
    /\ tasks \in { <<>> } \cup
                 { << LoadedTask(n, 1) >> : n \in NotesTexts }
    /\ settings = getInitialState.settings
    /\ persisted = Snapshot(heap, conversations, archivedConversations,
                            activeConversationId, tasks, settings)
    /\ chat = setupConversation(heap, conversations, activeConversationId,
                                NoChat, TRUE)
    /\ sends = <<>>
    /\ inputDisabled = FALSE
    /\ welcomeVisible = FALSE
    /\ form = ClosedForm
    /\ enrich = NoEnrichment
    /\ activeTools = {}

TaskNext ==
    \/ Tick
    \/ \E j \in 1..Len(tasks), i \in 0..(2 * MaxLines) : ToggleSubtask(j, i)
    \/ \E k \in 1..Len(tasks) : openTaskFormEdit(k)
    \/ openTaskFormNew
    \/ closeTaskForm
    \/ \E title \in TitleTexts, notes \in FormNotes : EditForm(title, notes, form.status)
    \/ handleTaskFormSubmit
    \/ handleDeleteTask
    \/ SourceLinkClick(TRUE)
    \/ \E id \in ListedIds : toggleArchiveConversation(id, TRUE)
    \/ \E id \in Keys(heap, conversations) : deleteConversation(id, FALSE, TRUE)
    \/ \E id \in Keys(heap, archivedConversations) :
           deleteConversation(id, TRUE, TRUE)
    \/ \E instructions \in InstructionTexts : saveSettings(instructions, TRUE)

TaskSpec == TaskInit /\ [][TaskNext]_vars

\* The storage specification: creating and sending, each write to localStorage
\* free to throw.
StorageNext ==
    \/ Tick
    \/ startNewChat(TRUE)
    \/ startNewChatWriteFails
    \/ \E msg \in UserMessages, stream \in DeltaStreams :
           Len(sends) < MaxSends /\ handleFormSubmit(msg, stream, TRUE, TRUE)
    \/ \E msg \in UserMessages : handleFormSubmitWriteFails(msg, TRUE)
    \/ \E s \in 1..Len(sends) : StreamDelta(s)
    \/ \E s \in 1..Len(sends) : StreamEnd(s)
    \/ \E s \in 1..Len(sends) : StreamEndWriteFails(s)
    \/ \E s \in 1..Len(sends) : StreamFail(s)

StorageSpec == Init /\ [][StorageNext]_vars

\* The grounding specification: sends whose streams carry grounding metadata.
GroundingNext ==
    \/ Tick
    \/ startNewChat(TRUE)
    \/ \E msg \in UserMessages, stream \in GroundingStreams :
           Len(sends) < MaxSends /\ handleFormSubmit(msg, stream, TRUE, TRUE)
    \/ \E s \in 1..Len(sends) : StreamDelta(s)
    \/ \E s \in 1..Len(sends) : StreamEnd(s)
    \/ \E s \in 1..Len(sends) : StreamFail(s)

GroundingSpec == Init /\ [][GroundingNext]_vars

\* The enrichment specification: one loaded task and the conversation it came
\* from, the task form with its two generateContent calls.
SubtaskLists == { <<>>, << <<"s">> >> }

EnrichInit ==
    /\ now = 2
    /\ ai \in BOOLEAN
    /\ heap = << LoadedConversation >>
    /\ conversations = << 1 >>
    /\ archivedConversations = <<>>
    /\ activeConversationId = 1
    /\ tasks = << LoadedTask(<<>>, 1) >>
    /\ settings = getInitialState.settings
    /\ persisted = Snapshot(heap, conversations, archivedConversations,
                            activeConversationId, tasks, settings)
    /\ chat = setupConversation(heap, conversations, activeConversationId,
                                NoChat, TRUE)
    /\ sends = <<>>
    /\ inputDisabled = FALSE
    /\ welcomeVisible = FALSE
    /\ form = ClosedForm
    /\ enrich = NoEnrichment
    /\ activeTools = {}

EnrichNext ==
    \/ Tick
    \/ \E k \in 1..Len(tasks) : openTaskFormEdit(k)
    \/ openTaskFormNew
    \/ \E i \in 1..2 : openTaskFormFromMessage(i)
    \/ closeTaskForm
    \/ \E title \in TitleTexts : EditForm(title, form.notes, form.status)
    \/ handleGenerateSubtasks
    \/ \E e \in 1..MaxEnrich, subtasks \in SubtaskLists :
           GenerateSubtasksDone(e, subtasks)
    \/ \E e \in 1..MaxEnrich : GenerateSubtasksFail(e)
    \/ \E e \in 1..MaxEnrich, response \in TitleResponses :
           GenerateTitleDone(e, response)
    \/ \E e \in 1..MaxEnrich : GenerateTitleFail(e)
    \/ handleTaskFormSubmit

EnrichSpec == EnrichInit /\ [][EnrichNext]_vars

\* The suggestion specification: a loaded conversation with one exchange, and
\* sends with one-chunk streams, each followed by its task suggestion; the user
\* archives, selects, and accepts or dismisses the bars.
ShortStreams == { << Chunk(He, FALSE, <<>>) >> }

SuggestionInit ==
    /\ now = 2
    /\ ai = TRUE
    /\ heap = << LoadedConversation >>
    /\ conversations = << 1 >>
    /\ archivedConversations = <<>>
    /\ activeConversationId = 1
    /\ tasks = <<>>
    /\ settings = getInitialState.settings
    /\ persisted = Snapshot(heap, conversations, archivedConversations,
                            activeConversationId, tasks, settings)
    /\ chat = setupConversation(heap, conversations, activeConversationId,
                                NoChat, TRUE)
    /\ sends = <<>>
    /\ inputDisabled = FALSE
    /\ welcomeVisible = FALSE
    /\ form = ClosedForm
    /\ enrich = NoEnrichment
    /\ activeTools = {}

SuggestionNext ==
    \/ \E id \in ListedIds : selectConversation(id, TRUE)
    \/ \E id \in ListedIds : toggleArchiveConversation(id, TRUE)
    \/ \E msg \in UserMessages, stream \in ShortStreams :
           Len(sends) < MaxSends /\ handleFormSubmit(msg, stream, TRUE, TRUE)
    \/ \E s \in 1..Len(sends) : StreamDelta(s)
    \/ \E s \in 1..Len(sends) : StreamEnd(s)
    \/ \E s \in 1..Len(sends) : StreamFail(s)
    \/ \E s \in 1..Len(sends), suggested \in BOOLEAN : SuggestionDone(s, suggested)
    \/ \E s \in 1..Len(sends) : SuggestionFail(s)
    \/ \E s \in 1..Len(sends) : AcceptSuggestion(s)
    \/ \E s \in 1..Len(sends) : DismissSuggestion(s)
    \/ closeTaskForm
    \/ handleTaskFormSubmit

SuggestionSpec == SuggestionInit /\ [][SuggestionNext]_vars

\* The exchange specification: the same loaded conversation and up to
\* MaxExchanges sends, the enrichment requests left outstanding.
ExchangeNext ==
    \/ \E id \in ListedIds : selectConversation(id, TRUE)
    \/ \E id \in ListedIds : toggleArchiveConversation(id, TRUE)
    \/ \E msg \in UserMessages, stream \in ShortStreams :
           Len(sends) < MaxExchanges /\ handleFormSubmit(msg, stream, TRUE, TRUE)
    \/ \E s \in 1..Len(sends) : StreamDelta(s)
    \/ \E s \in 1..Len(sends) : StreamEnd(s)
    \/ \E s \in 1..Len(sends) : StreamFail(s)

ExchangeSpec == SuggestionInit /\ [][ExchangeNext]_vars

\* The loading specification: the page is loaded over any snapshot of
\* StoredSnapshots, a snapshot made of any subset of the top-level fields and,
\* when it has settings, of any subset of their fields, or over no snapshot.
\* Before main() has run, state is not assigned: the variables of AppState hold
\* the values of getInitialState until then.
StoredConversation ==
    [ id |-> 3, title |-> NewChatTitle, history |-> << UserEntry(Hi) >>,
      customInstructions |-> <<>> ]

StoredFields ==
    [ conversations         |-> << LoadedConversation >>,
      archivedConversations |-> << StoredConversation >>,
      activeConversationId  |-> 1,
      tasks                 |-> << LoadedTask(ScenarioNotes, 1) >>,
      settings              |-> [ customInstructions |-> << "c" >>,
                                  isSidebarPinned    |-> TRUE ] ]

Restrict(f, S) == [ k \in S |-> f[k] ]

StoredSnapshots ==
    { NoSnapshot } \cup
    { Restrict(StoredFields, S) : S \in SUBSET (DOMAIN StoredFields \ {"settings"}) }
    \cup
    { Spread(Restrict(StoredFields, S),
             [ settings |-> Restrict(StoredFields.settings, T) ]) :
          S \in SUBSET (DOMAIN StoredFields \ {"settings"}),
          T \in SUBSET (DOMAIN StoredFields.settings) }

LoadInit ==
    /\ now = 2
    /\ ai = FALSE
    /\ heap = <<>>
    /\ conversations = getInitialState.conversations
    /\ archivedConversations = getInitialState.archivedConversations
    /\ activeConversationId = getInitialState.activeConversationId
    /\ tasks = getInitialState.tasks
    /\ settings = getInitialState.settings
    /\ persisted \in StoredSnapshots
    /\ chat = NoChat
    /\ sends = <<>>
    /\ inputDisabled = FALSE
    /\ welcomeVisible = TRUE
    /\ form = ClosedForm
    /\ enrich = NoEnrichment
    /\ activeTools = {}

LoadNext == \E okAi \in BOOLEAN : main(okAi)

LoadSpec == LoadInit /\ [][LoadNext]_vars

\* The flow specification: sends from the loaded conversation with their two
\* enrichment requests, which succeed, fail or stay outstanding, the write of
\* the user's entry free to throw. Every stream that was requested goes on until
\* it is exhausted or fails; nothing is assumed of the enrichment requests.
StreamStep(s) ==
    /\ s \in 1..Len(sends)
    /\ StreamDelta(s) \/ StreamEnd(s) \/ StreamFail(s)

FlowNext ==
    \/ \E id \in ListedIds : selectConversation(id, TRUE)
    \/ \E id \in ListedIds : toggleArchiveConversation(id, TRUE)
    \/ \E msg \in UserMessages, stream \in ShortStreams :
           Len(sends) < MaxSends /\ handleFormSubmit(msg, stream, TRUE, TRUE)
    \/ \E msg \in UserMessages : handleFormSubmitWriteFails(msg, TRUE)
    \/ \E s \in 1..MaxSends : StreamStep(s)
    \/ \E s \in 1..Len(sends), response \in TitleResponses : TitleDone(s, response)
    \/ \E s \in 1..Len(sends) : TitleFail(s)
    \/ \E s \in 1..Len(sends), suggested \in BOOLEAN : SuggestionDone(s, suggested)
    \/ \E s \in 1..Len(sends) : SuggestionFail(s)

FlowSpec ==
    /\ SuggestionInit
    /\ [][FlowNext]_vars
    /\ \A s \in 1..MaxSends : WF_vars(StreamStep(s))

\* The tool specification: creating, selecting and sending, the tools toggled
\* at any time, the page loaded again as long as no message was sent.
ToolNext ==
    \/ Tick
    \/ startNewChat(TRUE)
    \/ \E id \in ListedIds : selectConversation(id, TRUE)
    \/ \E toolId \in AvailableTools : toggleTool(toolId)
    \/ \E msg \in UserMessages, stream \in ShortStreams :
           Len(sends) < MaxSends /\ handleFormSubmit(msg, stream, TRUE, TRUE)
    \/ \E s \in 1..Len(sends) : StreamDelta(s)
    \/ \E s \in 1..Len(sends) : StreamEnd(s)
    \/ \E s \in 1..Len(sends) : StreamFail(s)
    \/ sends = <<>> /\ main(TRUE)

ToolSpec == Init /\ [][ToolNext]_vars

\* The sub-task specification: the form of the loaded task or of a new one, its
\* notes typed by the user, sub-tasks generated into them. The model answers
\* with no string, one string, two strings, or one string of two lines.
DraftNotes == { <<>>, << " " >>, << "a" >> }

SubtaskAnswers ==
    { <<>>, << << "s" >> >>, << << "s" >>, << "u" >> >>, << << "s", NL, "u" >> >> }

SubtaskNext ==
    \/ \E k \in 1..Len(tasks) : openTaskFormEdit(k)
    \/ openTaskFormNew
    \/ closeTaskForm
    \/ \E title \in TitleTexts, notes \in DraftNotes :
           EditForm(title, notes, form.status)
    \/ handleGenerateSubtasks
    \/ \E e \in 1..MaxEnrich, subtasks \in SubtaskAnswers :
           GenerateSubtasksDone(e, subtasks)
    \/ \E e \in 1..MaxEnrich : GenerateSubtasksFail(e)
    \/ handleTaskFormSubmit

SubtaskSpec == EnrichInit /\ [][SubtaskNext]_vars

\* The checklist specification: one loaded task whose notes are any text of
\* ChecklistTexts, rendered by the parser and toggled through its check boxes.
ChecklistLines ==
    Lines \cup { <<"-", " ", "[", " ", "]", " ", "a", " ", LS, "b">>,
                 <<"-", " ", "[", " ", "]", " ", " ", "a", " ">> }

ChecklistTexts ==
    { Join(ls) : ls \in SeqsUpTo(ChecklistLines, MaxLines) } \cup { ScenarioNotes }

ChecklistInit ==
    /\ now = 2
    /\ ai = TRUE
    /\ heap = << LoadedConversation >>
    /\ conversations = << 1 >>
    /\ archivedConversations = <<>>
    /\ activeConversationId = 1
    /\ tasks \in { << LoadedTask(n, 1) >> : n \in ChecklistTexts }
    /\ settings = getInitialState.settings
    /\ persisted = Snapshot(heap, conversations, archivedConversations,
                            activeConversationId, tasks, settings)
    /\ chat = setupConversation(heap, conversations, activeConversationId,
                                NoChat, TRUE)
    /\ sends = <<>>
    /\ inputDisabled = FALSE
    /\ welcomeVisible = FALSE
    /\ form = ClosedForm
    /\ enrich = NoEnrichment
    /\ activeTools = {}

ChecklistNext ==
    \/ Tick
    \/ \E j \in 1..Len(tasks), i \in 0..(2 * MaxLines) : ToggleSubtask(j, i)

ChecklistSpec == ChecklistInit /\ [][ChecklistNext]_vars

\* ================================================================ claims
Partitioned(r) == r \in Range(conversations) \cup Range(archivedConversations)

\* C1: activeConversationId is null or the id of a conversation of the active
\* partition, in every reachable state.
C1_ActiveIdInActivePartition ==
    activeConversationId = 0 \/ Lookup(heap, conversations, activeConversationId) # 0

\* C2: no conversation id is a key of both partitions.
C2_PartitionsDisjoint ==
    Keys(heap, conversations) \cap Keys(heap, archivedConversations) = {}

IsErrorMarker(e) == e.role = "model" /\ e.text = SorryText

\* C3: when the stream of a send fails, the committed history of its
\* conversation gets exactly one new entry, an error marker, and holds no entry
\* with the partial text.
C3_FailureAppendsErrorMarker ==
    [][\A s \in 1..Len(sends) :
          (sends[s].pc = "stream" /\ sends'[s].pc = "failed") =>
              LET before == heap[sends[s].ref].history
                  after  == heap'[sends[s].ref].history
              IN /\ Len(after) = Len(before) + 1
                 /\ SubSeq(after, 1, Len(before)) = before
                 /\ IsErrorMarker(after[Len(after)])
                 /\ \A i \in 1..Len(after) :
                        sends[s].modelResponse # <<>> =>
                            after[i].text # sends[s].modelResponse]_vars

RECURSIVE Concat(_)
Concat(texts) == IF texts = <<>> THEN <<>> ELSE Head(texts) \o Concat(Tail(texts))

\* the step is one of send s: its record changes in more than the place of its
\* message group in the document
SendSteps(s) == [sends'[s] EXCEPT !.attached = sends[s].attached] # sends[s]

\* C4: a send whose stream is exhausted appends exactly one model entry to the
\* history of its conversation, with the concatenation of the deltas received
\* as its text; no step of the send before that one, and none after it, changes
\* a history.
C4_ExhaustedStreamCommitsOnce ==
    [][\A s \in 1..Len(sends) :
          /\ (sends[s].pc = "stream" /\ sends'[s].pc = "done") =>
                 /\ sends[s].stream = <<>>
                 /\ heap'[sends[s].ref].history =
                        Append(heap[sends[s].ref].history,
                               ModelEntry(Concat(sends[s].received),
                                          sends[s].groundingChunks))
                 /\ \A r \in 1..Len(heap) : r # sends[s].ref => heap'[r] = heap[r]
          /\ (sends[s].pc = "stream" /\ sends'[s].pc = "stream"
                 /\ SendSteps(s)) => heap' = heap
          /\ (sends[s].pc = "done" /\ SendSteps(s)) =>
                 \A r \in 1..Len(heap) : heap'[r].history = heap[r].history]_vars

C4_Witness ==
    \E s \in 1..Len(sends) :
        /\ sends[s].pc = "done"
        /\ heap[sends[s].ref].history =
               << UserEntry(Hi), ModelEntry(He \o Llo, <<>>) >>

InPersisted(conv) ==
    \E i \in 1..Len(persisted.conversations) : persisted.conversations[i] = conv

\* C5: when the stream request of a send is issued, the user's entry is the last
\* entry of the conversation's history and the persisted snapshot holds the
\* conversation with it; a failure of the request or the stream changes neither
\* the histories nor the snapshot.
C5_UserEntrySavedBeforeRequest ==
    [][/\ (Len(sends') = Len(sends) + 1 /\ sends'[Len(sends')].pc = "stream") =>
              LET new == sends'[Len(sends')]
                  h   == heap'[new.ref].history
              IN /\ Len(h) > 0
                 /\ h[Len(h)] = UserEntry(new.userMessage)
                 /\ persisted'.conversations # <<>>
                 /\ \E i \in 1..Len(persisted'.conversations) :
                        persisted'.conversations[i] = heap'[new.ref]
       /\ \A s \in 1..Len(sends) :
              (sends[s].pc = "stream" /\ sends'[s].pc = "failed") =>
                  heap' = heap /\ persisted' = persisted]_vars

C5_Witness ==
    \E s \in 1..Len(sends) :
        /\ sends[s].pc = "failed"
        /\ sends[s].received # <<>>
        /\ InPersisted(heap[sends[s].ref])
        /\ heap[sends[s].ref].history = << UserEntry(sends[s].userMessage) >>

\* C6: at every point where control is back in the event loop, the persisted
\* snapshot equals the in-memory AppState.
C6_WriteThrough ==
    persisted = Snapshot(heap, conversations, archivedConversations,
                         activeConversationId, tasks, settings)

C6_Witness ==
    /\ \E s \in 1..Len(sends) : sends[s].titlePc = "done"
    /\ archivedConversations # <<>>
    /\ \E i \in 1..Len(persisted.archivedConversations) :
           Len(persisted.archivedConversations[i].history) = 2

HasCompletedExchange(r) ==
    \E i \in 1..Len(heap[r].history) : heap[r].history[i].role = "model"

TitleCalls(r) ==
    Cardinality({ s \in 1..Len(sends) :
                      sends[s].ref = r /\ sends[s].titlePc # "none" })

\* C7: title synthesis has been triggered exactly once for a conversation that
\* has a completed exchange, and not at all for one that has none.
C7_TitleOnceAtFirstExchange ==
    \A r \in 1..Len(heap) :
        TitleCalls(r) = IF HasCompletedExchange(r) THEN 1 ELSE 0

\* C8: a failed title request changes no title, no history and no other field
\* of AppState, nor the persisted snapshot.
C8_TitleFailureChangesNothing ==
    [][\A s \in 1..Len(sends) :
          (sends[s].titlePc = "pending" /\ sends'[s].titlePc = "failed") =>
              /\ heap' = heap
              /\ UNCHANGED << conversations, archivedConversations,
                              activeConversationId, tasks, settings, persisted >>]_vars

C8_Witness ==
    \E s \in 1..Len(sends) :
        /\ sends[s].titlePc = "failed"
        /\ heap[sends[s].titleRef].title = NewChatTitle
        /\ Len(heap[sends[s].titleRef].history) = 2

\* the index in lines of the parser's item number i (from 0), 0 when there is none
RECURSIVE ItemLine(_, _, _)
ItemLine(lines, from, i) ==
    IF from > Len(lines) THEN 0
    ELSE IF IsSubtaskLine(lines[from])
         THEN IF i = 0 THEN from ELSE ItemLine(lines, from + 1, i - 1)
         ELSE ItemLine(lines, from + 1, i)

\* the line with the character after its first "[" flipped between " " and "x"
FlipMarker(line) ==
    LET p == IndexOf(line, << "[" >>) IN
    [line EXCEPT ![p + 1] = IF @ = " " THEN "x" ELSE " "]

\* notes with the marker of the parser's item number i flipped, nothing else
FlipItem(notes, i) ==
    LET lines == Split(notes)
        k     == ItemLine(lines, 1, i)
    IN Join([lines EXCEPT ![k] = FlipMarker(@)])

\* a step of the change listener that changed the notes of a task: the task list
\* changes while the form is left alone
ToggleStep == tasks' # tasks /\ form' = form

\* C9: a toggle flips the marker of the line the parser reports as the item of
\* the toggled index, and changes nothing else in the notes.
C9_ToggleFlipsParsedItem ==
    [][ToggleStep =>
          \E j \in 1..Len(tasks) :
              \E i \in 0..(parseAndRenderSubtasks(tasks[j].notes).total - 1) :
                  tasks' = [tasks EXCEPT ![j].notes = FlipItem(@, i)]]_vars

\* two lines that differ in one character only, a " " or an "x" between brackets
OnlyMarkerDiffers(old, new) ==
    /\ Len(old) = Len(new)
    /\ \E p \in 2..(Len(old) - 1) :
           /\ old[p - 1] = "[" /\ old[p + 1] = "]"
           /\ {old[p], new[p]} = {" ", "x"}
           /\ \A q \in 1..Len(old) : q # p => old[q] = new[q]

C11_ChecklistRoundTrip ==
    \A j \in 1..Len(tasks) :
        parseAndRenderSubtasks(Encode(parseAndRenderSubtasks(tasks[j].notes).items))
            = parseAndRenderSubtasks(tasks[j].notes)

\* C12: a toggleArchiveConversation step on a listed id moves the conversation
\* from the partition that holds it to the other one, and the id is in both
\* partitions neither before nor after the step; n such steps therefore leave it
\* in the partition the parity of n names.
C12_ToggleMovesConversation ==
    [][\A id \in ListedIds :
          toggleArchiveConversation(id, TRUE) =>
              LET active    == id \in Keys(heap, conversations)
                  archived  == id \in Keys(heap, archivedConversations)
                  active2   == id \in Keys(heap', conversations')
                  archived2 == id \in Keys(heap', archivedConversations')
              IN /\ ~(active /\ archived)
                 /\ ~(active2 /\ archived2)
                 /\ active2 = archived
                 /\ archived2 = active]_vars

\* the state after a deletion of the active conversation id, as the claim has it
ActiveAfterDelete(id) ==
    /\ IF conversations' # <<>>
       THEN activeConversationId' \in Keys(heap', conversations')
       ELSE activeConversationId' = 0
    /\ id \notin Keys(heap', conversations') \cup Keys(heap', archivedConversations')

\* C13: a deleteConversation step on the id that is the active one leaves
\* activeConversationId at the id of a conversation of the active partition when
\* one remains and at null otherwise, and leaves the deleted id in no partition.
C13_DeleteActivePicksRemaining ==
    [][/\ \A id \in Keys(heap, conversations) :
              (deleteConversation(id, FALSE, TRUE) /\ activeConversationId = id)
                  => ActiveAfterDelete(id)
       /\ \A id \in Keys(heap, archivedConversations) :
              (deleteConversation(id, TRUE, TRUE) /\ activeConversationId = id)
                  => ActiveAfterDelete(id)]_vars

\* the last non-empty grounding chunk set among the chunks delivered
RECURSIVE LatestNonEmpty(_)
LatestNonEmpty(delivered) ==
    IF delivered = <<>> THEN <<>>
    ELSE LET last == delivered[Len(delivered)] IN
         IF last.has /\ last.set # <<>> THEN last.set
         ELSE LatestNonEmpty(SubSeq(delivered, 1, Len(delivered) - 1))

\* C14: the grounding metadata committed with a model reply is the latest
\* non-empty grounding chunk set delivered during its stream.
C14_LatestNonEmptyGrounding ==
    [][\A s \in 1..Len(sends) :
          (sends[s].pc = "stream" /\ sends'[s].pc = "done") =>
              LET h == heap'[sends[s].ref].history IN
              h[Len(h)].groundingChunks = LatestNonEmpty(sends[s].receivedGrounding)]_vars

IsPrefix(p, q) == Len(p) <= Len(q) /\ SubSeq(q, 1, Len(p)) = p

\* C15: the session a stream request is issued on was created from the
\* conversation the message belongs to: from that object, from a history that
\* is a prefix of its history, and from its custom instructions.
C15_SessionAffinity ==
    [][(Len(sends') = Len(sends) + 1 /\ sends'[Len(sends')].pc = "stream") =>
           LET new == sends'[Len(sends')] IN
           /\ new.session.convo = new.ref
           /\ IsPrefix(new.session.history, heap'[new.ref].history)
           /\ new.session.systemInstruction = heap'[new.ref].customInstructions]_vars

\* C16: when the stream of a send is exhausted while its conversation is in one
\* of the partitions, whichever conversation is active by then, the reply is
\* appended to the history of the conversation the message was sent in, that
\* conversation is in the persisted snapshot with the reply, and no other
\* conversation changes.
C16_ReplyGoesToSendingConversation ==
    [][\A s \in 1..Len(sends) :
          (sends[s].pc = "stream" /\ sends'[s].pc = "done"
               /\ Partitioned(sends[s].ref)) =>
              LET r == sends[s].ref
                  stored == Range(persisted'.conversations)
                                \cup Range(persisted'.archivedConversations)
              IN /\ Len(heap'[r].history) = Len(heap[r].history) + 1
                 /\ SubSeq(heap'[r].history, 1, Len(heap[r].history)) = heap[r].history
                 /\ heap'[r].history[Len(heap'[r].history)].role = "model"
                 /\ heap'[r].history[Len(heap'[r].history)].text
                        = sends[s].modelResponse
                 /\ heap'[r] \in stored
                 /\ \A q \in 1..Len(heap) : q # r => heap'[q] = heap[q]]_vars

\* a first send whose conversation was archived while it streamed (the title
\* call found it gone from the active partition), another conversation being
\* active, with the exchange in the archived part of the snapshot
C16_Witness ==
    \E s \in 1..Len(sends) :
        /\ sends[s].pc = "done"
        /\ sends[s].titlePc = "returned"
        /\ sends[s].ref \in Range(archivedConversations)
        /\ activeConversationId \notin {0, sends[s].convoId}
        /\ heap[sends[s].ref].history
               = << UserEntry(Hi), ModelEntry(He \o Llo, <<>>) >>
        /\ heap[sends[s].ref] \in Range(persisted.archivedConversations)

\* C17: when a generateContent call made for the task form completes while the
\* form is open on another task than the one it was made for (another
\* editingTaskId), the title and the notes in that form stay as they are; and a
\* completion changes no stored task in any case.
C17_EnrichmentStaysWithItsTask ==
    [][\A e \in 1..Len(enrich.calls) :
          (enrich.calls[e].pc = "pending" /\ enrich'.calls[e].pc # "pending") =>
              /\ tasks' = tasks
              /\ (form.open /\ form.editingTaskId # enrich.calls[e].forTask) =>
                     (form'.title = form.title /\ form'.notes = form.notes)]_vars

\* C18: selecting, through the source link of a task, an id that names no
\* existing conversation changes neither activeConversationId nor any other
\* part of AppState, nor the persisted snapshot.
C18_SelectUnknownIdRejected ==
    [][(SourceLinkClick(TRUE) /\ form.sourceLink \notin ListedIds) =>
           /\ heap' = heap
           /\ UNCHANGED << activeConversationId, conversations,
                           archivedConversations, tasks, settings, persisted >>]_vars

\* C19: while the form holds a title that is empty after trimming, no step that
\* acts on the form adds a task or rewrites one, on the create path and on the
\* edit path alike: state.tasks and the tasks of the persisted snapshot stay as
\* they are (a deletion, which shortens the list, is another operation).
C19_EmptyTitleRejected ==
    [][(form.open /\ Trim(form.title) = <<>> /\ form' # form
            /\ Len(tasks') >= Len(tasks)) =>
           (tasks' = tasks /\ persisted'.tasks = persisted.tasks)]_vars

\* the form open on a stored task, its title input holding white space only,
\* the task and the snapshot still holding the stored title
C19_Witness ==
    /\ form.open
    /\ form.editingTaskId # 0
    /\ form.title # <<>> /\ Trim(form.title) = <<>>
    /\ FindTask(tasks, form.editingTaskId) # 0
    /\ tasks[FindTask(tasks, form.editingTaskId)].title = <<"t">>
    /\ persisted.tasks = tasks

\* C20: an operation whose write to localStorage fails completes all the same.
\* A send whose save fails has its user entry in the history and its request
\* issued; a reply whose save fails is committed and the input is enabled; a
\* creation whose save fails leaves the new conversation active and shown, with
\* its session.
C20_OperationSurvivesFailedWrite ==
    [][/\ \A msg \in UserMessages :
              handleFormSubmitWriteFails(msg, TRUE) =>
                  LET new == sends'[Len(sends')] IN
                  /\ new.pc = "stream"
                  /\ heap'[new.ref].history # <<>>
                  /\ heap'[new.ref].history[Len(heap'[new.ref].history)]
                         = UserEntry(new.userMessage)
       /\ \A s \in 1..Len(sends) :
              StreamEndWriteFails(s) =>
                  /\ heap'[sends[s].ref].history =
                         Append(heap[sends[s].ref].history,
                                ModelEntry(sends[s].modelResponse,
                                           sends[s].groundingChunks))
                  /\ ~inputDisabled'
       /\ startNewChatWriteFails =>
              /\ activeConversationId' = now
              /\ Lookup(heap', conversations', now) = Len(heap')
              /\ ~welcomeVisible'
              /\ ai => chat'.convo = Len(heap')]_vars

\* a task whose sourceConversationId names no conversation of either partition
Dangling(t) == t.sourceConversationId # 0 /\ t.sourceConversationId \notin ListedIds

\* C21: deleting a conversation and toggling its archive state leave state.tasks
\* and the tasks of the snapshot as they are; and on a task whose source
\* conversation is gone, an update writes the three form fields and keeps the
\* others, a deletion removes it and keeps the other tasks, a toggle changes its
\* notes only.
C21_TasksOutliveTheirConversation ==
    [][/\ \A id \in ListedIds :
              (\/ deleteConversation(id, FALSE, TRUE)
               \/ deleteConversation(id, TRUE, TRUE)
               \/ toggleArchiveConversation(id, TRUE))
                  => (tasks' = tasks /\ persisted'.tasks = tasks)
       /\ \A k \in 1..Len(tasks) :
              (Dangling(tasks[k]) /\ FindTask(tasks, tasks[k].id) = k) =>
                  /\ (handleTaskFormSubmit /\ form.editingTaskId = tasks[k].id
                          /\ Trim(form.title) # <<>>) =>
                         /\ tasks' = [tasks EXCEPT ![k].title = Trim(form.title),
                                                   ![k].notes = Trim(form.notes),
                                                   ![k].status = form.status]
                         /\ persisted'.tasks = tasks'
                  /\ (handleDeleteTask /\ form.editingTaskId = tasks[k].id) =>
                         /\ tasks' = SelectSeq(tasks, LAMBDA t : t.id # tasks[k].id)
                         /\ persisted'.tasks = tasks'
                  /\ \A i \in 0..(2 * MaxLines) :
                         ToggleSubtask(k, i) =>
                             /\ tasks' = [tasks EXCEPT ![k].notes = tasks'[k].notes]
                             /\ tasks'[k].notes # tasks[k].notes
                                    => OnlyMarkerDiffers(tasks[k].notes, tasks'[k].notes)
                             /\ persisted'.tasks = tasks']_vars

\* the task of the deleted conversation 1 still listed with its source, after
\* the form wrote its notes and a toggle checked their item
C21_Witness ==
    /\ ListedIds = {}
    /\ Len(tasks) = 1
    /\ tasks[1].sourceConversationId = 1
    /\ tasks[1].notes = <<"-", " ", "[", "x", "]", " ", "a">>
    /\ persisted.tasks = tasks

\* C22: a step of the task-suggestion workflow after its request (the answer,
\* the failure, the click on "Create Task" or on "Dismiss") leaves the
\* conversations, the active id, the tasks, the settings and the persisted
\* snapshot as they are; a failure, and an answer without taskSuggested, leave no
\* bar; and state.tasks changes only in a submit of the open task form.
C22_SuggestionChangesNoState ==
    [][/\ \A s \in 1..Len(sends) :
              (sends[s].suggestionPc \in {"pending", "shown"}
                   /\ sends'[s].suggestionPc # sends[s].suggestionPc) =>
                  /\ heap' = heap
                  /\ UNCHANGED << conversations, archivedConversations,
                                  activeConversationId, tasks, settings, persisted >>
                  /\ (SuggestionFail(s) \/ SuggestionDone(s, FALSE)) =>
                         sends'[s].suggestionPc \notin {"shown", "accepted"}
       /\ tasks' # tasks => (form.open /\ ~form'.open)]_vars

\* a suggestion accepted into the open form while no task is stored, another
\* suggestion request having failed
C22_Witness ==
    /\ \E s \in 1..Len(sends) :
           /\ sends[s].suggestionPc = "accepted"
           /\ form.open
           /\ form.title = SuggestedTitle
           /\ form.sourceConvoId = heap[sends[s].ref].id
    /\ \E s \in 1..Len(sends) : sends[s].suggestionPc = "failed"
    /\ tasks = <<>>
    /\ persisted.tasks = <<>>

\* the index of the last entry of role "user" in a history, 0 when there is none
LastUserIndex(hist) ==
    LET users == { i \in 1..Len(hist) : hist[i].role = "user" } IN
    IF users = {} THEN 0 ELSE CHOOSE i \in users : \A j \in users : j <= i

\* C23: the step that commits the reply of a send starts its task suggestion,
\* with the conversation and its reply in the persisted snapshot, from the text
\* of the last user entry of the history and the text of that reply; no other
\* step starts one, and a send that failed has none.
C23_SuggestionOncePerReply ==
    [][\A s \in 1..Len(sends) :
          /\ (sends[s].pc = "stream" /\ sends'[s].pc = "done") =>
                 LET hist == heap'[sends[s].ref].history IN
                 /\ sends[s].suggestionPc = "none"
                 /\ sends'[s].suggestionPc = "pending"
                 /\ heap'[sends[s].ref] \in Range(persisted'.conversations)
                        \cup Range(persisted'.archivedConversations)
                 /\ sends'[s].suggestionPrompt.assistant = sends[s].modelResponse
                 /\ hist[Len(hist) - 1].role = "user"
                 /\ sends'[s].suggestionPrompt.user = hist[LastUserIndex(hist)].text
          /\ ~(sends[s].pc = "stream" /\ sends'[s].pc = "done") =>
                 (sends'[s].suggestionPc = "pending"
                      => sends[s].suggestionPc = "pending")
          /\ sends'[s].pc = "failed" => sends'[s].suggestionPc = "none"]_vars

\* C24: after main() has loaded a snapshot, every top-level field of AppState
\* the snapshot has holds the stored value and every other one the value of
\* getInitialState, and the same for every field of the settings; when there is
\* no snapshot, AppState is getInitialState.
C24_LoadMergesDefaults ==
    [][\A okAi \in BOOLEAN :
          main(okAi) =>
              LET after == Snapshot(heap', conversations', archivedConversations',
                                    activeConversationId', tasks', settings')
              IN IF persisted = NoSnapshot
                 THEN after = getInitialState
                 ELSE /\ \A f \in DOMAIN getInitialState \ {"settings"} :
                            after[f] = IF f \in DOMAIN persisted
                                       THEN persisted[f] ELSE getInitialState[f]
                      /\ DOMAIN after.settings = DOMAIN getInitialState.settings
                      /\ \A g \in DOMAIN getInitialState.settings :
                            after.settings[g] =
                                IF "settings" \in DOMAIN persisted
                                       /\ g \in DOMAIN persisted.settings
                                THEN persisted.settings[g]
                                ELSE getInitialState.settings[g]]_vars

\* loaded from a snapshot without tasks and without an active id, whose
\* settings had the instructions only: both conversations and the instructions
\* are the stored ones, the rest has its default value
C24_Witness ==
    /\ Len(heap) = 2
    /\ heap[1] = LoadedConversation /\ conversations = << 1 >>
    /\ heap[2] = StoredConversation /\ archivedConversations = << 2 >>
    /\ activeConversationId = 0
    /\ tasks = <<>>
    /\ settings = [ customInstructions |-> << "c" >>, isSidebarPinned |-> FALSE ]

\* C25: the step in which the stream of a send ends, exhausted or failed,
\* enables the input, whatever the state of the title and suggestion requests;
\* and, every stream ending at some time, for every send there is a later
\* state in which the input is enabled.
C25_EnrichmentNeverBlocks ==
    /\ [][\A s \in 1..Len(sends) :
             (sends[s].pc = "stream" /\ sends'[s].pc \in {"done", "failed"})
                 => ~inputDisabled']_vars
    /\ \A s \in 1..MaxSends : (s <= Len(sends)) ~> ~inputDisabled

\* C26: a toggle of a tool changes no part of AppState and not the persisted
\* snapshot; toggling a tool twice gives the set back; the request of a send
\* carries the web-search tool in its config exactly when "web-search" is in the
\* set as the request is issued; and a page loaded again starts from the empty set.
C26_ToolsAreSessionState ==
    [][/\ \A toolId \in AvailableTools :
              /\ ToggledTools(ToggledTools(activeTools, toolId), toolId) = activeTools
              /\ toggleTool(toolId) =>
                     /\ heap' = heap
                     /\ UNCHANGED << conversations, archivedConversations,
                                     activeConversationId, tasks, settings,
                                     persisted >>
                     /\ (toolId \in activeTools') = (toolId \notin activeTools)
       /\ (Len(sends') = Len(sends) + 1 /\ sends'[Len(sends')].pc = "stream") =>
              /\ (sends'[Len(sends')].requestTools = << "googleSearch" >>)
                     = ("web-search" \in activeTools)
              /\ activeTools' = activeTools
       /\ main(TRUE) => activeTools' = {}]_vars

\* one request issued with the web search and, the tool toggled off, a later
\* one without it
C26_Witness ==
    /\ Len(sends) = 2
    /\ sends[1].requestTools = << "googleSearch" >>
    /\ sends[2].requestTools = <<>>
    /\ sends[2].pc = "stream"
    /\ activeTools = {}

\* s without the first n characters
DropFirst(s, n) == SubSeq(s, n + 1, Len(s))

\* text is n lines, line i being the unchecked checklist item of strings[i]
IsChecklistOf(text, strings) ==
    LET lines == Split(text) IN
    /\ Len(lines) = Len(strings)
    /\ \A i \in 1..Len(lines) :
           /\ IsSubtaskLine(lines[i])
           /\ SubtaskOf(lines[i]) = [checked |-> FALSE, text |-> strings[i]]

\* C27: when a sub-task generation answers with n >= 1 strings, the notes of
\* the form become the notes it held, then one blank line exactly when those
\* notes are not empty, then n unchecked checklist lines, one per string, in the
\* order of the answer; an empty answer and a failure leave the notes as they are.
C27_SubtasksAppendedToNotes ==
    [][\A e \in 1..Len(enrich.calls) :
          /\ \A subtasks \in SubtaskAnswers :
                 GenerateSubtasksDone(e, subtasks) =>
                     IF subtasks = <<>> THEN form'.notes = form.notes
                     ELSE LET added == DropFirst(form'.notes, Len(form.notes)) IN
                          /\ SubSeq(form'.notes, 1, Len(form.notes)) = form.notes
                          /\ IF form.notes # <<>>
                             THEN /\ SubSeq(added, 1, 2) = << NL, NL >>
                                  /\ IsChecklistOf(DropFirst(added, 2), subtasks)
                             ELSE IsChecklistOf(added, subtasks)
          /\ GenerateSubtasksFail(e) => form'.notes = form.notes]_vars

\* C28: nothing is retried. A send calls ai.chats.create at most once and
\* chat.sendMessageStream at most once, and a title, suggestion, sub-task or
\* task-title call that failed stays failed: a new call is one more call, made by
\* a send or by a click in the task form.
C28_NothingRetried ==
    /\ [](\A s \in 1..Len(sends) :
             sends[s].createAttempts <= 1 /\ sends[s].streamRequests <= 1)
    /\ [][/\ \A s \in 1..Len(sends) :
               s <= Len(sends') =>
                   /\ sends'[s].createAttempts = sends[s].createAttempts
                   /\ sends'[s].streamRequests = sends[s].streamRequests
                   /\ sends[s].titlePc = "failed" => sends'[s].titlePc = "failed"
                   /\ sends[s].suggestionPc = "failed"
                          => sends'[s].suggestionPc = "failed"
          /\ \A e \in 1..Len(enrich.calls) :
               (e <= Len(enrich'.calls) /\ enrich.calls[e].pc = "failed")
                   => enrich'.calls[e].pc = "failed"
          /\ Len(enrich'.calls) > Len(enrich.calls) =>
               \/ handleGenerateSubtasks
               \/ \E i \in 1..MaxExchanges * 2 : openTaskFormFromMessage(i)]_vars

\* the conversation objects the two partitions hold
Held(c, a) == { c[i] : i \in 1..Len(c) } \cup { a[i] : i \in 1..Len(a) }

\* C29: committed history is append-only. Whatever the step (a send, a failed
\* send, a title, an archive toggle, a selection, a settings update), a
\* conversation that a partition holds before and after it has, after it, a
\* history that starts with the history it had before.
C29_HistoryAppendOnly ==
    [][\A r \in Held(conversations, archivedConversations) :
          r \in Held(conversations', archivedConversations') =>
              /\ heap'[r].id = heap[r].id
              /\ IsPrefix(heap[r].history, heap'[r].history)]_vars

C29_Witness ==
    \E i \in 1..Len(archivedConversations) :
        LET hist == heap[archivedConversations[i]].history IN
        /\ Len(hist) >= 3
        /\ hist[1].role = "user" /\ hist[2].role = "model" /\ hist[3].role = "user"
        /\ heap[archivedConversations[i]].title # NewChatTitle

\* C30: when a send issues its stream request, the history the session of the
\* request was created from holds what the conversation held before the
\* message was appended and not the message: it is a prefix of that history,
\* and the whole of it when the send itself created the session, the first
\* message of a conversation included.
C30_SessionSeededWithoutTheMessage ==
    [][(Len(sends') = Len(sends) + 1 /\ sends'[Len(sends')].pc = "stream") =>
           LET new   == sends'[Len(sends')]
               prior == IF new.ref <= Len(heap) THEN heap[new.ref].history ELSE <<>>
           IN /\ heap'[new.ref].history = Append(prior, UserEntry(new.userMessage))
              /\ IsPrefix(new.session.history, prior)
              /\ new.createAttempts > 0 => new.session.history = prior]_vars

\* the entries are the user's and the model's in turn, the user's first
Alternates(hist) ==
    \A i \in 1..Len(hist) :
        hist[i].role = IF i % 2 = 1 THEN "user" ELSE "model"

\* C31: at most one send is in flight. While the stream of a send has not
\* ended no step starts another send, whatever conversation operations and
\* sample-prompt clicks come in between; and the history of a conversation none
\* of whose sends failed is user, model, user, model in turn.
C31_OneSendInFlight ==
    /\ [][Len(sends') = Len(sends) + 1 =>
              \A s \in 1..Len(sends) : sends[s].pc # "stream"]_vars
    /\ [](\A r \in 1..Len(heap) :
             (\A s \in 1..Len(sends) :
                  sends[s].ref = r => sends[s].pc \in {"stream", "done"})
                 => Alternates(heap[r].history))

\* C32: every accepted send appends one user entry holding its text to the
\* conversation that activeConversationId names when it is submitted, a
\* conversation made and activated by the send when the id is null; no other
\* history changes, and no send ends before its entry is in the history.
C32_AcceptedSendRecordsUserEntry ==
    [][Len(sends') = Len(sends) + 1 =>
           LET new == sends'[Len(sends')]
               r   == IF activeConversationId = 0 THEN Len(heap) + 1
                      ELSE Lookup(heap, conversations, activeConversationId)
           IN /\ new.pc # "aborted"
              /\ r # 0
              /\ new.ref = r
              /\ Lookup(heap', conversations', activeConversationId') = r
              /\ activeConversationId # 0 =>
                     activeConversationId' = activeConversationId
              /\ heap'[r].history =
                     Append(IF r <= Len(heap) THEN heap[r].history ELSE <<>>,
                            UserEntry(new.userMessage))
              /\ \A q \in 1..Len(heap) :
                     q # r => heap'[q].history = heap[q].history]_vars

\* conversation object r was deleted: no partition holds it, and no
\* conversation made after it took its place under its key
Deleted(r) ==
    /\ ~Partitioned(r)
    /\ \A q \in (r + 1)..Len(heap) : heap[q].id # heap[r].id

\* the step leaves in place what the deletion of conversation object r made:
\* its id in no partition, every other conversation as it was, the active id
DeletionStands(r) ==
    /\ heap[r].id \notin Keys(heap', conversations')
                         \cup Keys(heap', archivedConversations')
    /\ conversations' = conversations
    /\ archivedConversations' = archivedConversations
    /\ \A q \in 1..Len(heap) :
           q # r => /\ heap'[q].history = heap[q].history
                    /\ heap'[q].title = heap[q].title
    /\ activeConversationId' = activeConversationId

\* C33: a conversation deleted while its stream or its title request is in
\* flight stays deleted. The step that ends the stream, and the step that ends
\* the title request, leave its id in neither partition, change the history and
\* the title of no other conversation and leave activeConversationId alone.
C33_DeletedStaysDeleted ==
    [][\A s \in 1..Len(sends) :
          /\ (sends[s].pc = "stream" /\ sends'[s].pc # "stream"
                 /\ Deleted(sends[s].ref)) => DeletionStands(sends[s].ref)
          /\ (sends[s].titlePc = "pending" /\ sends'[s].titlePc # "pending"
                 /\ Deleted(sends[s].titleRef))
                 => DeletionStands(sends[s].titleRef)]_vars

\* the sends whose title request was issued for conversation object r
TitleRequests(r) ==
    { s \in 1..Len(sends) :
          sends[s].titlePc \in {"pending", "done", "failed"} /\ sends[s].titleRef = r }

\* C34: title synthesis is started at most once for a conversation, whatever
\* the sends (completed, failed, overlapping) and the other operations, and the
\* step that ends a successful synthesis changes the title of the conversation
\* of its send and nothing else of any conversation.
C34_TitleStartedAtMostOnce ==
    /\ [](\A r \in 1..Len(heap) :
             /\ Cardinality(TitleRequests(r)) <= 1
             /\ TitleCalls(r) <= 1)
    /\ [][\A s \in 1..Len(sends) :
              (sends[s].titlePc = "pending" /\ sends'[s].titlePc = "done") =>
                  /\ \A q \in 1..Len(heap) :
                         q # sends[s].ref => heap'[q] = heap[q]
                  /\ heap'[sends[s].ref] =
                         [heap[sends[s].ref] EXCEPT
                              !.title = heap'[sends[s].ref].title]]_vars

\* C35: ids are unique. A step that creates a conversation gives it an id that
\* no conversation of either partition has, and a step that creates a task gives
\* it an id that no task has, the clock standing still or not.
C35_IdsAreUnique ==
    [][/\ Len(heap') = Len(heap) + 1 =>
              heap'[Len(heap')].id \notin ListedIds
       /\ Len(tasks') = Len(tasks) + 1 =>
              \A j \in 1..Len(tasks) : tasks[j].id # tasks'[Len(tasks')].id]_vars

\* C36: toggleArchiveConversation hands the active id over. Archiving the
\* active conversation leaves activeConversationId at a conversation of the
\* active partition, or at null when none remains; archiving another
\* conversation leaves it unchanged; unarchiving sets it to the unarchived id
\* when it was null and leaves it unchanged otherwise.
C36_ArchiveHandsOverActiveId ==
    [][\A id \in ListedIds :
          toggleArchiveConversation(id, TRUE) =>
              IF id \in Keys(heap, archivedConversations)
              THEN activeConversationId' =
                       IF activeConversationId = 0 THEN id ELSE activeConversationId
              ELSE IF activeConversationId = id
                   THEN IF conversations' = <<>>
                        THEN activeConversationId' = 0
                        ELSE activeConversationId' \in Keys(heap', conversations')
                   ELSE activeConversationId' = activeConversationId]_vars

C36_Witness ==
    /\ Len(archivedConversations) = 2
    /\ conversations = <<>>
    /\ activeConversationId = 0
    /\ heap[archivedConversations[1]].id # heap[archivedConversations[2]].id
====
